---- MODULE Spec2Model ----
(***************************************************************************)
(* Electrobun's encrypted RPC channel between the Bun host process and its *)
(* webviews: the webview-side caller (package/src/browser/eden.ts) and the *)
(* host-side dispatcher (package/src/bun/index.ts).                        *)
(*                                                                         *)
(* JavaScript runs each task and each microtask to completion, so one      *)
(* action is one task or microtask: a call, a timer callback, a socket     *)
(* event, the continuation after an await.                                 *)
(***************************************************************************)
EXTENDS Integers, Sequences, FiniteSets, TLC

\* ------------------------------------------------------------------ bounds
\* calls callProcedure makes in one run
MaxCalls == 2
\* Date.now() readings 0..MaxClock
MaxClock == 0
\* onMessage / registerMessageHandler calls in one run
MaxSubs == 3
\* Requests the host receives in one run
MaxRequests == 2
\* registerProcedure calls in one run
MaxRegs == 2

\* ------------------------------------------------------- JavaScript values
\* A value is a tagged tuple; an absent property of a parsed packet reads as
\* undefined.
Undefined == <<"undefined">>
Str(s) == <<"string", s>>
Obj(tag) == <<"object", tag>>
\* an Error instance with the given message
ErrorObj(msg) == <<"Error", msg>>
\* a value JSON.stringify throws on (a BigInt, a circular object)
Unserializable == <<"bigint", "1n">>

\* JavaScript truthiness, as `if (packet.error)` tests it
Truthy(v) == v # Undefined /\ v # Str("")

\* String(v) of a primitive
StringOf(v) == IF v[1] = "string" THEN v[2] ELSE v[1]

Methods == {"echo", "boom"}
Times == 0..MaxClock

\* ------------------------------------------------------------------- state
VARIABLES
  \* ---- webview side (eden.ts)
  requestIdCounter,  \* let requestIdCounter
  calls,             \* one record per callProcedure call, in call order
  pendingRequests,   \* Map id -> the call (its resolve, reject and timer)
  timers,            \* the calls whose setTimeout is armed
  socket,            \* readyState of the module's socket, "null" before init
  transmitted,       \* packets the webview handed to socket.send, in order
  messageHandlers,   \* Map name -> Set object
  sets,              \* contents of every Set object created, by identity
  unsubs,            \* the unsubscribe closures handed out, and whether each was called
  lastEvent,         \* the last operation and what it did
  \* ---- host side (bun/index.ts)
  procedures,        \* Map name -> handler
  socketMap,         \* Map webviewId -> socket
  sockState,         \* readyState of every host-side socket
  running,           \* dispatched Requests whose handler has not completed
  dispatched,        \* Requests handed to handleRequest so far
  registrations,     \* the registerProcedure calls so far, in order
  serverPort,        \* let serverPort
  bound,             \* ports this process listens on
  taken,             \* ports other processes listen on
  corePort,          \* let serverPort of bun/core/ElysiaRPC.ts
  returned,          \* per startServer implementation, the ports its calls returned
  \* ---- the webview's message listener (eden.ts)
  arrived,           \* message events the listener has received
  decrypting,        \* the events whose `await decryptFn(...)` has not settled
  handled,           \* the events given to handleIncomingPacket, in that order
  \* ---- the host's cipher (bun/index.ts)
  frames,            \* what each encrypt call of an outbound packet used, in call order
  \* ---- the webview's fire-and-forget sends (eden.ts)
  outbox             \* one record per sendMessage call, in call order

callerVars == <<requestIdCounter, calls, pendingRequests, timers, socket, transmitted>>
routerVars == <<messageHandlers, sets, unsubs>>
hostVars == <<procedures, socketMap, sockState, running, dispatched, registrations>>
serverVars == <<serverPort, bound, taken, corePort, returned>>
listenerVars == <<arrived, decrypting, handled>>
codecVars == <<frames>>
senderVars == <<outbox>>
vars == <<requestIdCounter, calls, pendingRequests, timers, socket, transmitted,
          messageHandlers, sets, unsubs, lastEvent,
          procedures, socketMap, sockState, running, dispatched, registrations,
          serverPort, bound, taken, corePort, returned,
          arrived, decrypting, handled, frames, outbox>>

\* --------------------------------------------------------- map operations
MapSet(m, k, v) == [x \in (DOMAIN m) \cup {k} |-> IF x = k THEN v ELSE m[x]]
MapDelete(m, k) == [x \in (DOMAIN m) \ {k} |-> m[x]]
EmptyMap == [x \in {} |-> 0]

\* ------------------------------------------------------------ packet shapes
Request(id, method, params) ==
  [type |-> "request", id |-> id, method |-> method, params |-> params]
Response(id, result, error) ==
  [type |-> "response", id |-> id, result |-> result, error |-> error]
Message(name, payload) ==
  [type |-> "message", name |-> name, payload |-> payload]

\* mutant: an id made of the clock reading alone
GenerateRequestId_ClockOnly(counter, now) == <<"req", 0, now>>

\* generateRequestId: `req_${++requestIdCounter}_${Date.now()}`
GenerateRequestId(counter, now) == <<"req", counter, now>>

\* ------------------------------------------------- what a handler can do
\* values a procedure handler can return, and values it can throw
Returned == {Obj("r1"), Undefined, Unserializable}
Thrown == {ErrorObj("bad input"), ErrorObj(""), Str("denied")}
Params == {Obj("p1")}

\* `error instanceof Error ? error.message : String(error)`
ErrorMessage(e) == IF e[1] = "Error" THEN e[2] ELSE StringOf(e)

\* mutant: the error does not name the method
ResponseUnknown_NoMethod(request) ==
  [type |-> "response", id |-> request.id, result |-> Undefined,
   error |-> Str("Unknown procedure")]

\* handleRequest's three Response shapes
ResponseUnknown(request) ==
  Response(request.id, Undefined, Str("Unknown procedure: " \o request.method))
ResponseResult(request, result) == Response(request.id, result, Undefined)
ResponseError(request, error) ==
  Response(request.id, Undefined, Str(ErrorMessage(error)))

\* JSON.stringify(packet) throws on a value it cannot serialize; a key whose
\* value is undefined is left out, and reads as undefined after JSON.parse.
JsonSerializable(packet) ==
  IF packet.type = "response" THEN packet.result # Unserializable
  ELSE IF packet.type = "request" THEN packet.params # Unserializable
  ELSE packet.payload # Unserializable

\* ----------------------------------------------------------- webview side
NoId == GenerateRequestId(0, 0)
\* the ids a Response can carry: every id a call can get, and one that no
\* call of this run gets (another session's)
ForeignId == GenerateRequestId(MaxCalls + 1, 0)
IdUniverse == {GenerateRequestId(n, t) : n \in 1..MaxCalls, t \in Times} \cup {ForeignId}

\* lastEvent: the operation that ran last; k is the call it was about (0: none)
Event(op, k) == [op |-> op, k |-> k]

\* the call that was given this id, 0 if none was
IssuedTo(id) ==
  IF \E k \in 1..Len(calls) : calls[k].id = id
  THEN CHOOSE k \in 1..Len(calls) : calls[k].id = id
  ELSE 0

Pending == [state |-> "pending", value |-> Undefined]
Fulfilled(v) == [state |-> "fulfilled", value |-> v]
\* rejected with new Error(msg)
Rejected(msg) == [state |-> "rejected", value |-> ErrorObj(msg)]

\* A promise settles once: resolve and reject after that change nothing.
\* log keeps every call of the promise's resolve or reject, by path.
PromiseSettle(c, path, outcome) ==
  [c EXCEPT !.log = Append(@, path),
            !.promise = IF @.state = "pending" THEN outcome ELSE @]

\* the Responses a host can put on the wire for a Request id
HostResponses(id) ==
  LET req(m) == Request(id, m, Obj("p1")) IN
    {ResponseUnknown(req("doesNotExist"))}
    \cup {ResponseResult(req("echo"), v) : v \in Returned \ {Unserializable}}
    \cup {ResponseError(req("boom"), e) : e \in Thrown}

Names == {"log", "*"}
Handlers == {"h1", "h2"}
Payloads == {Obj("m1")}

IncomingResponses == UNION {HostResponses(id) : id \in IdUniverse}
IncomingPackets ==
  IncomingResponses \cup {Message(n, p) : n \in Names \cup {"other"}, p \in Payloads}

\* initEdenClient: the module keeps the socket it is given
InitEdenClient(readyState) ==
  /\ socket = "null"
  /\ socket' = readyState
  /\ lastEvent' = Event("init", 0)
  /\ UNCHANGED <<requestIdCounter, calls, pendingRequests, timers, transmitted>>
  /\ UNCHANGED <<routerVars, hostVars, serverVars, listenerVars, codecVars, senderVars>>

\* the socket's open and close events
SocketOpens ==
  /\ socket = "CONNECTING"
  /\ socket' = "OPEN"
  /\ lastEvent' = Event("open", 0)
  /\ UNCHANGED <<requestIdCounter, calls, pendingRequests, timers, transmitted>>
  /\ UNCHANGED <<routerVars, hostVars, serverVars, listenerVars, codecVars, senderVars>>

\* mutant: the close event rejects every pending call and empties the Map
SocketCloses_RejectsPending ==
  /\ socket \in {"CONNECTING", "OPEN"}
  /\ socket' = "CLOSED"
  /\ lastEvent' = [op |-> "close", k |-> 0]
  /\ calls' = [k \in 1..Len(calls) |->
                IF k \in timers
                THEN [calls[k] EXCEPT !.log = Append(@, "close"),
                                      !.promise = [state |-> "rejected",
                                                   value |-> <<"Error", "Connection closed">>]]
                ELSE calls[k]]
  /\ pendingRequests' = << >>
  /\ timers' = {}
  /\ UNCHANGED <<requestIdCounter, transmitted>>
  /\ UNCHANGED <<routerVars, hostVars, serverVars, listenerVars, codecVars, senderVars>>

SocketCloses ==
  /\ socket \in {"CONNECTING", "OPEN"}
  /\ socket' = "CLOSED"
  /\ lastEvent' = Event("close", 0)
  /\ UNCHANGED <<requestIdCounter, calls, pendingRequests, timers, transmitted>>
  /\ UNCHANGED <<routerVars, hostVars, serverVars, listenerVars, codecVars, senderVars>>

\* sendPacket up to its first await: it throws when the socket is missing or
\* not OPEN (encryptFn is set together with the socket), else awaits encryptFn.
SendPacketStart(readyState) ==
  IF readyState # "OPEN" THEN "syncFail" ELSE "encrypting"

\* callProcedure: new id, arm the timer, register the entry, start the send
CallProcedure(method, now) ==
  /\ Len(calls) < MaxCalls
  /\ LET id == GenerateRequestId(requestIdCounter + 1, now)
         k == Len(calls) + 1
     IN /\ requestIdCounter' = requestIdCounter + 1
        /\ timers' = timers \cup {k}
        /\ pendingRequests' = MapSet(pendingRequests, id, k)
        /\ calls' = Append(calls, [id |-> id, method |-> method,
                                   send |-> SendPacketStart(socket),
                                   promise |-> Pending, log |-> <<>>])
        /\ lastEvent' = Event("call", k)
  /\ UNCHANGED <<socket, transmitted>>
  /\ UNCHANGED <<routerVars, hostVars, serverVars, listenerVars, codecVars, senderVars>>

\* a microtask is queued: the catch of a sendPacket that threw before awaiting
MicrotaskQueued == \E k \in 1..Len(calls) : calls[k].send = "syncFail"

\* clearTimeout(handle)
ClearTimeout(ts, k) == ts \ {k}

\* mutant: the catch cleans up but never rejects
SendCatchSettles_Silent(c, msg) == c

\* the catch of sendPacket(request): clear the timer, drop the entry, reject
SendCatchSettles(c, msg) == PromiseSettle(c, "send", Rejected(msg))

\* the catch runs as a microtask when sendPacket threw before its await
SendCatch(k) ==
  /\ k \in 1..Len(calls)
  /\ calls[k].send = "syncFail"
  /\ timers' = ClearTimeout(timers, k)
  /\ pendingRequests' = MapDelete(pendingRequests, calls[k].id)
  /\ calls' = [calls EXCEPT ![k] =
       [SendCatchSettles(@, "WebSocket not connected") EXCEPT !.send = "failed"]]
  /\ lastEvent' = Event("sendCatch", k)
  /\ UNCHANGED <<requestIdCounter, socket, transmitted>>
  /\ UNCHANGED <<routerVars, hostVars, serverVars, listenerVars, codecVars, senderVars>>

\* encryptFn's promise rejects: sendPacket rejects and the same catch runs
EncryptRejects(k) ==
  /\ k \in 1..Len(calls)
  /\ calls[k].send = "encrypting"
  /\ timers' = ClearTimeout(timers, k)
  /\ pendingRequests' = MapDelete(pendingRequests, calls[k].id)
  /\ calls' = [calls EXCEPT ![k] =
       [SendCatchSettles(@, "encrypt failed") EXCEPT !.send = "failed"]]
  /\ lastEvent' = Event("sendCatch", k)
  /\ UNCHANGED <<requestIdCounter, socket, transmitted>>
  /\ UNCHANGED <<routerVars, hostVars, serverVars, listenerVars, codecVars, senderVars>>

\* encryptFn's promise resolves: socket.send(...), with no second look at
\* readyState. A browser WebSocket that is CLOSING or CLOSED discards the data
\* without throwing.
EncryptResolves(k) ==
  /\ k \in 1..Len(calls)
  /\ calls[k].send = "encrypting"
  /\ calls' = [calls EXCEPT ![k].send = IF socket = "OPEN" THEN "sent" ELSE "discarded"]
  /\ transmitted' = IF socket = "OPEN"
                    THEN Append(transmitted, Request(calls[k].id, calls[k].method, Obj("p1")))
                    ELSE transmitted
  /\ lastEvent' = Event("sent", k)
  /\ UNCHANGED <<requestIdCounter, pendingRequests, timers, socket>>
  /\ UNCHANGED <<routerVars, hostVars, serverVars, listenerVars, codecVars, senderVars>>

\* mutants of the timer callback: the entry is left in the Map; the error
\* does not name the method
TimeoutDeletes_Keep(pr, id) == pr
TimeoutSettles_NoMethod(c) == PromiseSettle(c, "timeout", Rejected("Request timeout"))

\* the timer callback: pendingRequests.delete(id); reject(new Error(...))
TimeoutDeletes(pr, id) == MapDelete(pr, id)
TimeoutSettles(c) ==
  PromiseSettle(c, "timeout", Rejected("Request timeout: " \o c.method))

\* A timer callback is a task: it runs only when no microtask is queued.
TimeoutFires(k) ==
  /\ k \in timers
  /\ ~MicrotaskQueued
  /\ timers' = timers \ {k}
  /\ pendingRequests' = TimeoutDeletes(pendingRequests, calls[k].id)
  /\ calls' = [calls EXCEPT ![k] = TimeoutSettles(@)]
  /\ lastEvent' = Event("timeout", k)
  /\ UNCHANGED <<requestIdCounter, socket, transmitted>>
  /\ UNCHANGED <<routerVars, hostVars, serverVars, listenerVars, codecVars, senderVars>>

\* mutant: the Response path leaves the entry in the Map
ResponseDeletes_Keep(pr, id) == pr

\* handleIncomingPacket, a Response whose id is pending
ResponseClearsTimer(ts, k) == ClearTimeout(ts, k)
ResponseDeletes(pr, id) == MapDelete(pr, id)
ResponseSettles(c, packet) ==
  IF Truthy(packet.error)
  THEN PromiseSettle(c, "remote", Rejected(StringOf(packet.error)))
  ELSE PromiseSettle(c, "resolve", Fulfilled(packet.result))

\* mutant: no try/catch in the loop, the first throw ends the dispatch
InvokeEach_StopAtThrow(hs, wild, thr) ==
  LET stop == {i \in 1..Len(hs) : hs[i] \in thr}
      last == IF stop = {} THEN Len(hs) ELSE CHOOSE i \in stop : \A j \in stop : i <= j
  IN [invoked |-> [i \in 1..last |-> [handler |-> hs[i], wild |-> wild, threw |-> hs[i] \in thr]],
      escaped |-> stop # {}]

\* `for (const handler of handlers) { try { handler(arg) } catch {...} }`:
\* thr are the handlers that throw this time; hs is the Set in insertion order
InvokeEach(hs, wild, thr) ==
  [invoked |-> [i \in 1..Len(hs) |-> [handler |-> hs[i], wild |-> wild, threw |-> hs[i] \in thr]],
   escaped |-> FALSE]

\* every handler held by some Set of a side
Held(ss) == UNION {{ss[i][j] : j \in 1..Len(ss[i])} : i \in 1..Len(ss)}

\* handleIncomingPacket, a Message: the name's handlers, then the "*" handlers
DispatchMessage(mh, ss, name, thr) ==
  LET specific == IF name \in DOMAIN mh THEN InvokeEach(ss[mh[name]], FALSE, thr)
                  ELSE [invoked |-> <<>>, escaped |-> FALSE]
      wildcard == IF specific.escaped \/ "*" \notin DOMAIN mh
                  THEN [invoked |-> <<>>, escaped |-> specific.escaped]
                  ELSE InvokeEach(ss[mh["*"]], TRUE, thr)
  IN [invoked |-> specific.invoked \o wildcard.invoked, escaped |-> wildcard.escaped]

\* mutant: a Response whose id is unknown is given to the oldest pending call
PendingGet_Oldest(pr, id) ==
  IF id \in DOMAIN pr THEN pr[id]
  ELSE IF DOMAIN pr # {}
  THEN CHOOSE k \in {pr[i] : i \in DOMAIN pr} : \A i \in DOMAIN pr : k <= pr[i]
  ELSE 0

\* mutant: a Response whose id is pending is given to the newest pending call
PendingGet_Newest(pr, id) ==
  IF id \in DOMAIN pr
  THEN CHOOSE k \in {pr[i] : i \in DOMAIN pr} : \A i \in DOMAIN pr : k >= pr[i]
  ELSE 0

\* pendingRequests.get(packet.id): the call whose entry it is, 0 for undefined
PendingGet(pr, id) == IF id \in DOMAIN pr THEN pr[id] ELSE 0

\* handleIncomingPacket(packet)
HandlePacket(packet) ==
  /\ socket \in {"OPEN", "CLOSED"}
  /\ IF packet.type = "response"
     THEN LET k == PendingGet(pendingRequests, packet.id) IN
          IF k # 0
          THEN /\ timers' = ResponseClearsTimer(timers, k)
               /\ pendingRequests' = ResponseDeletes(pendingRequests, packet.id)
               /\ calls' = [calls EXCEPT ![k] = ResponseSettles(@, packet)]
               /\ lastEvent' = Event("response", k)
          ELSE /\ lastEvent' = Event("dropped", IssuedTo(packet.id))
               /\ UNCHANGED <<timers, pendingRequests, calls>>
     ELSE IF packet.type = "message"
     THEN \E thr \in SUBSET Held(sets["webview"]) :
            LET d == DispatchMessage(messageHandlers["webview"], sets["webview"],
                                     packet.name, thr) IN
            /\ lastEvent' = [op |-> "message", name |-> packet.name,
                             invoked |-> d.invoked, escaped |-> d.escaped]
            /\ UNCHANGED <<timers, pendingRequests, calls>>
     ELSE /\ lastEvent' = Event("ignored", 0)
          /\ UNCHANGED <<timers, pendingRequests, calls>>
  /\ UNCHANGED <<requestIdCounter, socket, transmitted>>
  /\ UNCHANGED <<routerVars, hostVars, serverVars, codecVars, senderVars>>

\* The socket's message listener after decryption, as one step
HandleIncomingPacket(packet) == HandlePacket(packet) /\ UNCHANGED listenerVars

\* --------------------------------------------------- message subscriptions
\* onMessage (eden.ts) and registerMessageHandler (bun/index.ts) are the same
\* code over each side's own messageHandlers Map.
Sides == {"webview", "host"}

\* A Set object, in insertion order
SetAdd(hs, h) == IF \E i \in 1..Len(hs) : hs[i] = h THEN hs ELSE Append(hs, h)
SetDelete(hs, h) == SelectSeq(hs, LAMBDA x : x # h)

Subscriptions == Len(unsubs["webview"]) + Len(unsubs["host"])

\* onMessage(name, handler): create the name's Set if missing, add the handler,
\* return a closure over that Set object, the name and the handler
OnMessage(side, name, handler) ==
  /\ Subscriptions < MaxSubs
  /\ LET mh == messageHandlers[side]
         fresh == name \notin DOMAIN mh
         set == IF fresh THEN Len(sets[side]) + 1 ELSE mh[name]
     IN /\ sets' = [sets EXCEPT ![side] =
                      IF fresh THEN Append(@, <<handler>>)
                      ELSE [@ EXCEPT ![set] = SetAdd(@, handler)]]
        /\ messageHandlers' = [messageHandlers EXCEPT ![side] =
                      IF fresh THEN MapSet(@, name, set) ELSE @]
        /\ unsubs' = [unsubs EXCEPT ![side] =
                      Append(@, [name |-> name, handler |-> handler,
                                 handlers |-> set, used |-> FALSE])]
  /\ lastEvent' = [op |-> "subscribe", side |-> side, name |-> name, handler |-> handler]
  /\ UNCHANGED <<callerVars, hostVars, serverVars, listenerVars, codecVars, senderVars>>

\* the closure: handlers.delete(handler); if (handlers.size === 0)
\* messageHandlers.delete(name)
UnsubscribeMap(mh, ss, u) ==
  IF Len(SetDelete(ss[u.handlers], u.handler)) = 0 THEN MapDelete(mh, u.name) ELSE mh

Unsubscribe(side, i) ==
  /\ i \in 1..Len(unsubs[side])
  /\ LET u == unsubs[side][i] IN
     /\ sets' = [sets EXCEPT ![side][u.handlers] = SetDelete(@, u.handler)]
     /\ messageHandlers' = [messageHandlers EXCEPT ![side] = UnsubscribeMap(@, sets[side], u)]
     /\ lastEvent' = [op |-> "unsubscribe", side |-> side, name |-> u.name,
                      handler |-> u.handler, i |-> i]
     /\ unsubs' = [unsubs EXCEPT ![side][i].used = TRUE]
  /\ UNCHANGED <<callerVars, hostVars, serverVars, listenerVars, codecVars, senderVars>>

\* ---------------------------------------------------------------- host side
\* BrowserView.getById(id) and its secretKey come from the window layer: every
\* webview id below has a view and a key of its own.
Webviews == {1, 2}
Key(view) == <<"key", view>>
Keys == {Key(v) : v \in Webviews}

\* Host-side sockets and the webviewId each one's query string claims; s1 and
\* s2 claim the same id (a reconnect).
Sockets == {"s1", "s2", "s3"}
SocketView(s) == IF s = "s3" THEN 2 ELSE 1

ProcHandlers == {"f1", "f2"}

\* ------------------------------------------------------ envelope codec
\* encrypt / decrypt over bytes. A byte is one of 0..3, a text a sequence of
\* UTF-16 code units: "a" (one UTF-8 byte), "E9" (two), "D800" (a lone
\* surrogate) and "FFFD" (the replacement character, three).
Bytes == 0..3
Chars == {"a", "E9", "D800"}
MaxText == 2
Texts == UNION {[1..n -> Chars] : n \in 0..MaxText}

\* mutant: an encoding that keeps one-byte characters only
Utf8Char_Ascii(c) == IF c = "a" THEN <<1>> ELSE <<3, 3, 1>>

\* cipher.update(text, "utf8"): a lone surrogate is encoded as U+FFFD
Utf8Char(c) ==
  IF c = "a" THEN <<1>> ELSE IF c = "E9" THEN <<3, 2>> ELSE <<3, 3, 1>>

RECURSIVE Utf8Encode(_)
Utf8Encode(text) ==
  IF text = <<>> THEN <<>> ELSE Utf8Char(Head(text)) \o Utf8Encode(Tail(text))

RECURSIVE Utf8Decode(_)
\* decrypted.toString("utf8"): a byte that starts no valid sequence decodes
\* to U+FFFD
Utf8Decode(bytes) ==
  IF bytes = <<>> THEN <<>>
  ELSE IF bytes[1] = 1 THEN <<"a">> \o Utf8Decode(Tail(bytes))
  ELSE IF Len(bytes) >= 2 /\ bytes[1] = 3 /\ bytes[2] = 2
       THEN <<"E9">> \o Utf8Decode(SubSeq(bytes, 3, Len(bytes)))
  ELSE IF Len(bytes) >= 3 /\ bytes[1] = 3 /\ bytes[2] = 3 /\ bytes[3] = 1
       THEN <<"FFFD">> \o Utf8Decode(SubSeq(bytes, 4, Len(bytes)))
  ELSE <<"FFFD">> \o Utf8Decode(Tail(bytes))

\* Buffer.toString("base64") and base64ToUint8Array (atob, charCodeAt)
Base64Encode(bytes) == <<"base64", bytes>>
Base64ToUint8Array(b64) == b64[2]

\* a key that is not 32 bytes long, which aes-256-gcm refuses
ShortKey == <<"key16", 3>>
CodecKeys == Keys \cup {ShortKey}
KeyLength(key) == IF key[1] = "key" THEN 32 ELSE 16

\* randomBytes(12), two of its values
Ivs == {0, 1}

\* bitwise exclusive or of two bytes
Xor(a, b) == (((a % 2) + (b % 2)) % 2) + 2 * (((a \div 2) + (b \div 2)) % 2)

\* the counter-mode key stream of AES under a key and an iv
KeyStream(key, iv, i) == (key[2] + 2 * iv + i) % 4

\* cipher.update + cipher.final in GCM: the bytes xor the key stream, in
\* both directions
GcmCrypt(key, iv, bytes) == [i \in 1..Len(bytes) |-> Xor(bytes[i], KeyStream(key, iv, i))]

\* cipher.getAuthTag(): 16 bytes authenticating the ciphertext under the key
\* and the iv; no other key, iv or ciphertext gives the same tag
GcmTag(key, iv, ciphertext) == [mac |-> <<key, iv, ciphertext>>, len |-> 16, flipped |-> FALSE]

\* the tag lengths setAuthTag takes for GCM when createDecipheriv was given
\* no authTagLength
ValidTagLengths == {4, 8, 12, 13, 14, 15, 16}

Threw == [ok |-> FALSE]

\* mutant: the iv is derived from the text instead of drawn
Encrypt_IvFromText(secretKey, text, iv) ==
  IF KeyLength(secretKey) # 32 THEN Threw
  ELSE LET derived == Len(text) % 2
           ciphertext == GcmCrypt(secretKey, derived, Utf8Encode(text))
       IN [ok |-> TRUE, encrypted |-> Base64Encode(ciphertext), iv |-> Base64Encode(derived),
           tag |-> Base64Encode(GcmTag(secretKey, derived, ciphertext))]

\* encrypt(secretKey, text) with the iv randomBytes returned
Encrypt(secretKey, text, iv) ==
  IF KeyLength(secretKey) # 32 THEN Threw
  ELSE LET ciphertext == GcmCrypt(secretKey, iv, Utf8Encode(text))
       IN [ok |-> TRUE, encrypted |-> Base64Encode(ciphertext), iv |-> Base64Encode(iv),
           tag |-> Base64Encode(GcmTag(secretKey, iv, ciphertext))]

\* mutant: decipher.final() is not called, the tag is not checked
TagVerifies_Unchecked(secretKey, encryptedData, iv, tag, shortTags) == TRUE

\* decipher.setAuthTag(tag) and decipher.final(): the tag has a valid length
\* and is the tag of this key, iv and ciphertext, or its first tag.len bytes
\* where the runtime accepts a shorter tag (shortTags)
TagVerifies(secretKey, encryptedData, iv, tag, shortTags) ==
  /\ tag.len \in ValidTagLengths
  /\ tag.mac = <<secretKey, iv, encryptedData>>
  /\ ~tag.flipped
  /\ tag.len = 16 \/ shortTags

\* decrypt(secretKey, encryptedData, iv, tag): the text, or a throw
Decrypt(secretKey, encryptedData, iv, tag, shortTags) ==
  IF KeyLength(secretKey) # 32 THEN Threw
  ELSE IF ~TagVerifies(secretKey, encryptedData, iv, tag, shortTags) THEN Threw
  ELSE [ok |-> TRUE, text |-> Utf8Decode(GcmCrypt(secretKey, iv, encryptedData))]

\* encrypt(secretKey, text): AES-256-GCM, opened only by the same key
Envelope(key, packet) == [key |-> key, packet |-> packet]

\* envelopes that no key opens: one with a changed field, one that is not an
\* envelope at all (JSON.parse, atob or a property read throws)
Tampered(env) == [key |-> <<"tampered", env.key>>, packet |-> env.packet]
Malformed == [key |-> <<"malformed">>, packet |-> [type |-> "none"]]

\* mutant: decrypt returns the plaintext whatever the key
DecryptOpens_AnyKey(key, env) == env # Malformed

\* the receiver's decrypt, under its key, of the frame encrypt made under
\* the envelope's key, returns a plaintext
DecryptOpens(key, env) ==
  /\ env.key \in CodecKeys
  /\ LET frame == Encrypt(env.key, <<"a">>, 0) IN
     /\ frame.ok
     /\ Decrypt(key, Base64ToUint8Array(frame.encrypted), Base64ToUint8Array(frame.iv),
                Base64ToUint8Array(frame.tag), FALSE).ok

Outcomes ==
  {[kind |-> "return", value |-> v] : v \in Returned}
  \cup {[kind |-> "throw", value |-> e] : e \in Thrown}

HostRequests ==
  {Request(GenerateRequestId(1, 0), "echo", Obj("p1")),
   Request(GenerateRequestId(2, 0), "boom", Obj("p1")),
   Request(GenerateRequestId(1, 0), "doesNotExist", Obj("p1"))}

HostPackets ==
  HostRequests
  \cup {Message(n, p) : n \in Names, p \in Payloads}
  \cup {Response(GenerateRequestId(1, 0), Obj("r1"), Undefined)}

\* mutant: a name that is registered keeps its first handler
ProceduresSet_KeepFirst(procs, name, handler) ==
  IF name \in DOMAIN procs THEN procs ELSE MapSet(procs, name, handler)

\* procedures.set(name, { handler })
ProceduresSet(procs, name, handler) == MapSet(procs, name, handler)

\* registerProcedure(name, handler)
RegisterProcedure(name, handler) ==
  /\ Len(registrations) < MaxRegs
  /\ registrations' = Append(registrations, [name |-> name, handler |-> handler])
  /\ procedures' = ProceduresSet(procedures, name, handler)
  /\ lastEvent' = [op |-> "register", name |-> name, handler |-> handler]
  /\ UNCHANGED <<socketMap, sockState, running, dispatched>>
  /\ UNCHANGED <<callerVars, routerVars, serverVars, listenerVars, codecVars, senderVars>>

\* ws open: socketMap.set(webviewId, ws.raw)
HostSocketOpen(s) ==
  /\ sockState[s] = "new"
  /\ sockState' = [sockState EXCEPT ![s] = "OPEN"]
  /\ socketMap' = MapSet(socketMap, SocketView(s), s)
  /\ lastEvent' = [op |-> "hostOpen", sock |-> s]
  /\ UNCHANGED <<procedures, running, dispatched, registrations>>
  /\ UNCHANGED <<callerVars, routerVars, serverVars, listenerVars, codecVars, senderVars>>

\* the socket leaves OPEN before its close event is delivered
HostSocketClosing(s) ==
  /\ sockState[s] = "OPEN"
  /\ sockState' = [sockState EXCEPT ![s] = "CLOSING"]
  /\ lastEvent' = [op |-> "hostClosing", sock |-> s]
  /\ UNCHANGED <<procedures, socketMap, running, dispatched, registrations>>
  /\ UNCHANGED <<callerVars, routerVars, serverVars, listenerVars, codecVars, senderVars>>

\* ws close: socketMap.delete(webviewId)
HostSocketClose(s) ==
  /\ sockState[s] \in {"OPEN", "CLOSING"}
  /\ sockState' = [sockState EXCEPT ![s] = "CLOSED"]
  /\ socketMap' = MapDelete(socketMap, SocketView(s))
  /\ lastEvent' = [op |-> "hostClose", sock |-> s]
  /\ UNCHANGED <<procedures, running, dispatched, registrations>>
  /\ UNCHANGED <<callerVars, routerVars, serverVars, listenerVars, codecVars, senderVars>>

\* mutant: sendToWebview does not look at readyState
SendToWebview_AnyState(sm, st, view, packet) ==
  IF view \in DOMAIN sm /\ JsonSerializable(packet)
  THEN [ok |-> TRUE,
        sent |-> <<[socket |-> sm[view], env |-> [key |-> <<"key", view>>, packet |-> packet]]>>]
  ELSE [ok |-> FALSE, sent |-> <<>>]

\* mutant: `return true` after the try/catch instead of inside the try
SendToWebview_TrueAfterCatch(sm, st, view, packet) ==
  IF view \in DOMAIN sm /\ st[sm[view]] = "OPEN"
  THEN [ok |-> TRUE,
        sent |-> IF JsonSerializable(packet)
                 THEN <<[socket |-> sm[view], env |-> Envelope(Key(view), packet)]>>
                 ELSE <<>>]
  ELSE [ok |-> FALSE, sent |-> <<>>]

\* sendToWebview(browserView, packet): the socket registered for the view's
\* id, if OPEN, gets the packet encrypted under the view's key; a throw of
\* JSON.stringify, encrypt or send is caught and false returned.
SendToWebview(sm, st, view, packet) ==
  IF view \in DOMAIN sm /\ st[sm[view]] = "OPEN" /\ JsonSerializable(packet)
  THEN [ok |-> TRUE,
        sent |-> <<[socket |-> sm[view], env |-> Envelope(Key(view), packet)]>>]
  ELSE [ok |-> FALSE, sent |-> <<>>]

\* mutant: no try/catch around the awaited handler
HandleRequestSettle_NoCatch(request, outcome) ==
  IF outcome.kind = "return"
  THEN [built |-> <<Response(request.id, outcome.value, Undefined)>>, escaped |-> FALSE]
  ELSE [built |-> <<>>, escaped |-> TRUE]

\* handleRequest's try/catch around the awaited handler: a Response either way
HandleRequestSettle(request, outcome) ==
  IF outcome.kind = "return"
  THEN [built |-> <<ResponseResult(request, outcome.value)>>, escaped |-> FALSE]
  ELSE [built |-> <<ResponseError(request, outcome.value)>>, escaped |-> FALSE]

\* mutant: the lookup finds nothing, so no handler is awaited
LookupProcedure_None(procs, method) == "none"

\* procedures.get(request.method)
LookupProcedure(procs, method) == IF method \in DOMAIN procs THEN procs[method] ELSE "none"

\* ws message: decrypt with the view's key, parse, route by packet.type.
\* A Request runs handleRequest up to the await of the handler.
HostMessage(s, env) ==
  /\ sockState[s] = "OPEN"
  /\ LET view == SocketView(s)
         packet == env.packet
     IN IF ~DecryptOpens(Key(view), env)
        THEN /\ lastEvent' = [op |-> "decryptFailed", sock |-> s]
             /\ UNCHANGED <<running, dispatched>>
        ELSE IF packet.type = "request"
        THEN /\ dispatched < MaxRequests
             /\ dispatched' = dispatched + 1
             /\ LET h == LookupProcedure(procedures, packet.method) IN
                IF h = "none"
                THEN LET response == ResponseUnknown(packet)
                         r == SendToWebview(socketMap, sockState, view, response)
                     IN /\ lastEvent' = [op |-> "dispatch", n |-> dispatched + 1, sock |-> s,
                                         view |-> view, request |-> packet, handler |-> "none",
                                         built |-> <<response>>, sent |-> r.sent,
                                         escaped |-> FALSE]
                        /\ UNCHANGED running
                ELSE /\ running' = running \cup
                           {[n |-> dispatched + 1, sock |-> s, view |-> view,
                             request |-> packet, handler |-> h]}
                     /\ lastEvent' = [op |-> "invoke", n |-> dispatched + 1, sock |-> s,
                                      request |-> packet, handler |-> h,
                                      params |-> packet.params, ctx |-> view]
        ELSE IF packet.type = "message"
        THEN \E thr \in SUBSET Held(sets["host"]) :
               LET d == DispatchMessage(messageHandlers["host"], sets["host"],
                                        packet.name, thr) IN
               /\ lastEvent' = [op |-> "hostMessage", sock |-> s, view |-> view,
                                name |-> packet.name,
                                invoked |-> d.invoked, escaped |-> d.escaped]
               /\ UNCHANGED <<running, dispatched>>
        ELSE /\ lastEvent' = [op |-> "ignored", sock |-> s]
             /\ UNCHANGED <<running, dispatched>>
  /\ UNCHANGED <<procedures, socketMap, sockState, registrations>>
  /\ UNCHANGED <<callerVars, routerVars, serverVars, listenerVars, codecVars, senderVars>>

\* the awaited handler settles: handleRequest builds the Response and calls
\* sendToWebview(browserView, response)
HandlerCompletes(d, outcome) ==
  /\ d \in running
  /\ running' = running \ {d}
  /\ LET c == HandleRequestSettle(d.request, outcome)
         r == IF c.escaped THEN [ok |-> FALSE, sent |-> <<>>]
              ELSE SendToWebview(socketMap, sockState, d.view, c.built[1])
     IN lastEvent' = [op |-> "dispatch", n |-> d.n, sock |-> d.sock, view |-> d.view,
                      request |-> d.request, handler |-> d.handler,
                      built |-> c.built, sent |-> r.sent, escaped |-> c.escaped]
  /\ UNCHANGED <<procedures, socketMap, sockState, dispatched, registrations>>
  /\ UNCHANGED <<callerVars, routerVars, serverVars, listenerVars, codecVars, senderVars>>

\* ---------------------------------------------------------- specifications
Init ==
  /\ requestIdCounter = 0
  /\ calls = <<>>
  /\ pendingRequests = EmptyMap
  /\ timers = {}
  /\ socket = "null"
  /\ transmitted = <<>>
  /\ messageHandlers = [side \in Sides |-> EmptyMap]
  /\ sets = [side \in Sides |-> <<>>]
  /\ unsubs = [side \in Sides |-> <<>>]
  /\ lastEvent = [op |-> "load"]
  /\ procedures = EmptyMap
  /\ socketMap = EmptyMap
  /\ sockState = [s \in Sockets |-> "new"]
  /\ running = {}
  /\ dispatched = 0
  /\ registrations = <<>>
  /\ serverPort = 0
  /\ bound = {}
  /\ taken = {}
  /\ corePort = 0
  /\ returned = [impl \in {"index", "indexElysia", "core", "coreCompact"} |-> {}]
  /\ arrived = 0
  /\ decrypting = {}
  /\ handled = <<>>
  /\ frames = <<>>
  /\ outbox = <<>>

\* the webview's request correlator
Next ==
  \/ \E rs \in {"CONNECTING", "OPEN"} : InitEdenClient(rs)
  \/ SocketOpens
  \/ SocketCloses
  \/ \E m \in Methods, now \in Times : CallProcedure(m, now)
  \/ \E k \in 1..MaxCalls : SendCatch(k)
  \/ \E k \in 1..MaxCalls : EncryptRejects(k)
  \/ \E k \in 1..MaxCalls : EncryptResolves(k)
  \/ \E k \in 1..MaxCalls : TimeoutFires(k)
  \/ \E p \in IncomingPackets : HandleIncomingPacket(p)

Spec == Init /\ [][Next]_vars

\* the host's procedure registry and dispatch, sockets opening
DispatchNext ==
  \/ \E n \in Methods, h \in ProcHandlers : RegisterProcedure(n, h)
  \/ \E s \in Sockets : HostSocketOpen(s)
  \/ \E s \in Sockets, k \in Keys, p \in HostPackets : HostMessage(s, Envelope(k, p))
  \/ \E d \in running, o \in Outcomes : HandlerCompletes(d, o)

DispatchSpec == Init /\ [][DispatchNext]_vars

\* the host's dispatch while sockets open and close
ConnOutcomes ==
  {[kind |-> "return", value |-> Obj("r1")], [kind |-> "return", value |-> Unserializable],
   [kind |-> "throw", value |-> ErrorObj("bad input")]}

ConnNext ==
  \/ RegisterProcedure("echo", "f1")
  \/ \E s \in Sockets : HostSocketOpen(s)
  \/ \E s \in Sockets : HostSocketClosing(s)
  \/ \E s \in Sockets : HostSocketClose(s)
  \/ \E s \in Sockets, k \in Keys, p \in HostPackets : HostMessage(s, Envelope(k, p))
  \/ \E d \in running, o \in ConnOutcomes : HandlerCompletes(d, o)

ConnSpec == Init /\ [][ConnNext]_vars

\* message subscriptions on both sides
RouterNext ==
  \/ \E side \in Sides, n \in Names, h \in Handlers : OnMessage(side, n, h)
  \/ \E side \in Sides, i \in 1..MaxSubs : Unsubscribe(side, i)

RouterSpec == Init /\ [][RouterNext]_vars

\* the request correlator under the event loop's guarantees: an armed timer
\* fires, a queued microtask runs
FairSpec ==
  /\ Init /\ [][Next]_vars
  /\ \A k \in 1..MaxCalls : WF_vars(TimeoutFires(k)) /\ WF_vars(SendCatch(k))

\* ------------------------------------------------------------------ claims
\* the calls of resolve or reject made by one of the three paths of 4.5
Fired(c) == SelectSeq(c.log, LAMBDA path : path \in {"resolve", "timeout", "remote"})
HasEntry(k) == PendingGet(pendingRequests, calls[k].id) = k

EveryCallSettles ==
  \A k \in 1..MaxCalls :
    (k <= Len(calls)) ~>
      (k <= Len(calls) /\ ~HasEntry(k) /\ calls[k].promise.state # "pending")

\* a call whose Request was never transmitted (the socket closed during the
\* encryption) and that no Response answered was settled by its timer
EveryCallSettlesWitness ==
  \E k \in 1..Len(calls) :
    /\ calls[k].send = "discarded" /\ socket = "CLOSED"
    /\ calls[k].log = <<"timeout">> /\ ~HasEntry(k)

\* C3: the timer firing rejects the call with a timeout error naming the
\* method and removes its entry; a Response for that id afterwards changes
\* nothing of the caller's state.
TimeoutThenLateResponseDropped ==
  [][ /\ \A k \in 1..Len(calls) :
           TimeoutFires(k) =>
             /\ calls'[k].promise = Rejected("Request timeout: " \o calls[k].method)
             /\ calls[k].id \notin DOMAIN pendingRequests'
      /\ \A p \in IncomingResponses :
           ( /\ IssuedTo(p.id) # 0
             /\ calls[IssuedTo(p.id)].log = <<"timeout">>
             /\ HandleIncomingPacket(p) )
           => /\ UNCHANGED callerVars
              /\ lastEvent' = Event("dropped", IssuedTo(p.id)) ]_vars

\* a Response arrived for a call after its timer had rejected it
LateResponseWitness ==
  /\ lastEvent.op = "dropped" /\ lastEvent.k # 0
  /\ calls[lastEvent.k].log = <<"timeout">>
  /\ calls[lastEvent.k].promise =
       Rejected("Request timeout: " \o calls[lastEvent.k].method)
  /\ calls[lastEvent.k].send = "sent"

\* C4: a matching Response with `error` present rejects the call with that
\* message, whatever the message; one with `result` resolves with the result.
ResponseSettlesByContent ==
  [][ \A p \in IncomingResponses :
        (PendingGet(pendingRequests, p.id) # 0 /\ HandleIncomingPacket(p)) =>
          LET k == PendingGet(pendingRequests, p.id) IN
          IF p.error # Undefined
          THEN calls'[k].promise = Rejected(StringOf(p.error))
          ELSE calls'[k].promise = Fulfilled(p.result) ]_vars

\* C5: a Response whose id is not in pendingRequests changes nothing: no
\* entry, call, timer or subscription changes, nothing is settled, no message
\* handler runs and nothing is thrown.
UnknownResponseDropped ==
  [][ \A p \in IncomingResponses :
        (p.id \notin DOMAIN pendingRequests /\ HandleIncomingPacket(p)) =>
          /\ UNCHANGED <<callerVars, routerVars, serverVars, codecVars, senderVars>>
          /\ lastEvent' = Event("dropped", IssuedTo(p.id)) ]_vars

\* a Response with an id no call of this run was given arrived while a call
\* was pending
UnknownResponseWitness ==
  /\ lastEvent = Event("dropped", 0)
  /\ \E k \in 1..Len(calls) : HasEntry(k) /\ calls[k].send = "sent"

\* the envelopes a socket can deliver that open under its view's key
Deliverable(s) == {Envelope(Key(SocketView(s)), p) : p \in HostRequests}

\* a call that is pending at the webview, as callProcedure registers it
FreshCall(request) ==
  [id |-> request.id, method |-> request.method, send |-> "sent",
   promise |-> Pending, log |-> <<>>]

\* C6: a Request for a method with no registered procedure is answered with
\* a Response carrying its id and the error "Unknown procedure: <method>";
\* no handler is invoked, nothing is thrown, and the webview's call that
\* receives this Response is rejected with that error.
UnknownProcedureAnswered ==
  [][ \A s \in Sockets : \A env \in Deliverable(s) :
        (env.packet.method \notin DOMAIN procedures /\ HostMessage(s, env)) =>
          LET expected == Response(env.packet.id, Undefined,
                                   Str("Unknown procedure: " \o env.packet.method))
          IN /\ lastEvent'.op = "dispatch"
             /\ lastEvent'.handler = "none"
             /\ lastEvent'.built = <<expected>>
             /\ ~lastEvent'.escaped
             /\ running' = running
             /\ ResponseSettles(FreshCall(env.packet), lastEvent'.built[1]).promise
                  = Rejected("Unknown procedure: " \o env.packet.method) ]_vars

\* a Request for an unregistered method was answered on the peer's socket
\* while another method was registered
UnknownProcedureWitness ==
  /\ lastEvent.op = "dispatch" /\ lastEvent.handler = "none"
  /\ lastEvent.request.method = "doesNotExist"
  /\ Len(lastEvent.sent) = 1
  /\ DOMAIN procedures # {}

\* a dispatch whose handler threw has just completed
AfterHandlerError ==
  /\ lastEvent.op = "dispatch" /\ lastEvent.handler # "none"
  /\ Len(lastEvent.built) = 1 /\ lastEvent.built[1].error # Undefined

\* C7: what a handler throws becomes a Response whose error is the thrown
\* message; nothing escapes handleRequest, the registries and the other
\* running dispatches are untouched, and every open socket still has its
\* Requests dispatched.
HandlerErrorContained ==
  /\ [][ \A d \in running : \A o \in Outcomes :
           (o.kind = "throw" /\ HandlerCompletes(d, o)) =>
             /\ lastEvent'.built = <<Response(d.request.id, Undefined, Str(o.value[2]))>>
             /\ ~lastEvent'.escaped
             /\ running' = running \ {d}
             /\ UNCHANGED <<procedures, socketMap, sockState>> ]_vars
  /\ [](AfterHandlerError /\ dispatched < MaxRequests =>
          \A s \in Sockets : sockState[s] = "OPEN" =>
            \A env \in Deliverable(s) : ENABLED HostMessage(s, env))

\* the first Request's handler threw "bad input", the error went back to the
\* peer, and the host can take the next Request
HandlerErrorWitness ==
  /\ AfterHandlerError /\ lastEvent.n = 1 /\ dispatched = 1
  /\ lastEvent.built[1].error = Str("bad input")
  /\ Len(lastEvent.sent) = 1
  /\ \E s \in Sockets : sockState[s] = "OPEN" /\ SocketView(s) # lastEvent.view

\* the handler registerProcedure was last called with for the name, "none"
\* if it never was
LastRegistered(regs, name) ==
  LET is == {i \in 1..Len(regs) : regs[i].name = name} IN
  IF is = {} THEN "none"
  ELSE regs[CHOOSE i \in is : \A j \in is : j <= i].handler

\* C9: in every state the registry maps each name to the handler of the last
\* registerProcedure call for that name, and a Request invokes that handler
\* and no other.
LastRegistrationWins ==
  /\ [](\A name \in Methods :
          LookupProcedure(procedures, name) = LastRegistered(registrations, name))
  /\ [][ \A s \in Sockets : \A env \in Deliverable(s) :
           (env.packet.method \in DOMAIN procedures /\ HostMessage(s, env)) =>
             /\ lastEvent'.op = "invoke"
             /\ lastEvent'.handler = LastRegistered(registrations, env.packet.method)
             /\ \E d \in running' :
                  /\ running' = running \cup {d} /\ d \notin running
                  /\ d.handler = lastEvent'.handler ]_vars

\* a name was registered twice with different handlers and a Request for it
\* invoked the second
LastRegistrationWitness ==
  /\ Len(registrations) = 2
  /\ registrations[1].name = registrations[2].name
  /\ registrations[1].handler # registrations[2].handler
  /\ lastEvent.op = "invoke" /\ lastEvent.request.method = registrations[2].name
  /\ lastEvent.handler = registrations[2].handler

\* C8 as claimed: every completed dispatch built one Response and transmitted
\* it, under the peer's key, on a socket of the peer.
EveryDispatchAnswered ==
  lastEvent.op = "dispatch" =>
    /\ Len(lastEvent.built) = 1
    /\ Len(lastEvent.sent) = 1
    /\ lastEvent.sent[1].env = Envelope(Key(lastEvent.view), lastEvent.built[1])
    /\ SocketView(lastEvent.sent[1].socket) = lastEvent.view

\* C8, amended: every completed dispatch built exactly one Response and
\* handed it to sendToWebview once; it was transmitted, once, under the
\* peer's key and on the socket registered for the peer's id, exactly when
\* that socket is OPEN and the Response can be serialized, and else dropped.
DispatchAnsweredIfConnected ==
  lastEvent.op = "dispatch" =>
    LET view == lastEvent.view
        connected == /\ view \in DOMAIN socketMap
                     /\ sockState[socketMap[view]] = "OPEN"
    IN /\ Len(lastEvent.built) = 1
       /\ lastEvent.built[1].id = lastEvent.request.id
       /\ ~lastEvent.escaped
       /\ IF connected /\ lastEvent.built[1].result # Unserializable
          THEN lastEvent.sent =
                 <<[socket |-> socketMap[view],
                    env |-> Envelope(Key(view), lastEvent.built[1])]>>
          ELSE lastEvent.sent = <<>>

\* a handler completed after its peer's socket had closed and another socket
\* of the same peer had opened: the Response went out on the new socket
DispatchAnsweredWitness ==
  /\ lastEvent.op = "dispatch" /\ lastEvent.handler # "none"
  /\ Len(lastEvent.sent) = 1
  /\ lastEvent.sent[1].socket # lastEvent.sock
  /\ sockState[lastEvent.sock] = "CLOSED"

\* the handlers a side's messageHandlers Map holds, by name
Subscribed(side) ==
  UNION {{<<name, sets[side][messageHandlers[side][name]][j]>> :
            j \in 1..Len(sets[side][messageHandlers[side][name]])} :
         name \in DOMAIN messageHandlers[side]}

\* C10: the Map never holds a name with an empty Set, and an unsubscribe
\* capability, called for the first time, removes the handler it was created
\* for and leaves every other subscribed handler subscribed.
UnsubscribeRemovesOnlyItsHandler ==
  /\ [](\A side \in Sides : \A name \in DOMAIN messageHandlers[side] :
          Len(sets[side][messageHandlers[side][name]]) > 0)
  /\ [][ \A side \in Sides : \A i \in 1..Len(unsubs[side]) :
           (~unsubs[side][i].used /\ Unsubscribe(side, i)) =>
             Subscribed(side)' =
               Subscribed(side) \ {<<unsubs[side][i].name, unsubs[side][i].handler>>} ]_vars

\* C11: calling an unsubscribe capability that was already called changes
\* nothing of the handler map, whatever was subscribed or unsubscribed on the
\* name in between.
SecondUnsubscribeNoOp ==
  [][ \A side \in Sides : \A i \in 1..Len(unsubs[side]) :
        (unsubs[side][i].used /\ Unsubscribe(side, i)) =>
          /\ messageHandlers'[side] = messageHandlers[side]
          /\ Subscribed(side)' = Subscribed(side) ]_vars

\* ------------------------------------------------- message delivery
\* the Messages either side can receive
Messages == {Message(n, p) : n \in Names \cup {"other"}, p \in Payloads}

\* subscriptions on both sides and Messages arriving on both sides
MessageNext ==
  \/ \E side \in Sides, n \in Names, h \in Handlers : OnMessage(side, n, h)
  \/ \E side \in Sides, i \in 1..MaxSubs : Unsubscribe(side, i)
  \/ InitEdenClient("OPEN")
  \/ HostSocketOpen("s1")
  \/ \E m \in Messages : HandleIncomingPacket(m)
  \/ \E m \in Messages : HostMessage("s1", Envelope(Key(1), m))

MessageSpec == Init /\ [][MessageNext]_vars

\* the handlers subscribed to a name on a side, in subscription order
SubscribersOf(side, name) ==
  IF name \in DOMAIN messageHandlers[side]
  THEN sets[side][messageHandlers[side][name]] ELSE <<>>

\* the handlers a dispatch invoked, in order
InvokedHandlers(event) == [i \in 1..Len(event.invoked) |-> event.invoked[i].handler]

\* C12: a Message arriving on either side invokes every handler subscribed
\* to its name and then every handler subscribed to "*", whichever of them
\* throw; nothing escapes the dispatch and no subscription changes.
MessageReachesEverySubscriber ==
  [][ \A m \in Messages :
        /\ HandleIncomingPacket(m) =>
             /\ lastEvent'.op = "message"
             /\ InvokedHandlers(lastEvent') =
                  SubscribersOf("webview", m.name) \o SubscribersOf("webview", "*")
             /\ ~lastEvent'.escaped
             /\ UNCHANGED routerVars
        /\ HostMessage("s1", Envelope(Key(1), m)) =>
             /\ lastEvent'.op = "hostMessage"
             /\ InvokedHandlers(lastEvent') =
                  SubscribersOf("host", m.name) \o SubscribersOf("host", "*")
             /\ ~lastEvent'.escaped
             /\ UNCHANGED routerVars ]_vars

\* on the host the first handler of the name threw, and a later handler of
\* the name and a wildcard handler were still invoked
MessageReachesWitness ==
  /\ lastEvent.op = "hostMessage" /\ lastEvent.name = "log"
  /\ Len(lastEvent.invoked) = 3
  /\ lastEvent.invoked[1].threw /\ ~lastEvent.invoked[1].wild
  /\ ~lastEvent.invoked[2].wild /\ lastEvent.invoked[3].wild

\* ------------------------------------------------------ host-side sends
\* ids sendMessage can be called with: the views that exist and one that
\* BrowserView.getById does not know
PeerIds == Webviews \cup {3}
SendPayloads == {Obj("m1"), Unserializable}

\* mutant: no `if (!browserView) return false`; sendToWebview then reads
\* browserView.id of undefined
SendMessage_NoViewCheck(sm, st, webviewId, name, payload) ==
  IF webviewId \notin Webviews
  THEN [ok |-> FALSE, sent |-> <<>>, escaped |-> TRUE]
  ELSE LET r == SendToWebview(sm, st, webviewId, Message(name, payload))
       IN [ok |-> r.ok, sent |-> r.sent, escaped |-> FALSE]

\* sendMessage(webviewId, name, payload): false without a BrowserView, else
\* what sendToWebview returns for the Message packet
SendMessage(sm, st, webviewId, name, payload) ==
  IF webviewId \notin Webviews
  THEN [ok |-> FALSE, sent |-> <<>>, escaped |-> FALSE]
  ELSE LET r == SendToWebview(sm, st, webviewId, Message(name, payload))
       IN [ok |-> r.ok, sent |-> r.sent, escaped |-> FALSE]

HostSendMessage(webviewId, name, payload) ==
  /\ LET r == SendMessage(socketMap, sockState, webviewId, name, payload) IN
     lastEvent' = [op |-> "send", view |-> webviewId, name |-> name, payload |-> payload,
                   ok |-> r.ok, sent |-> r.sent, escaped |-> r.escaped]
  /\ UNCHANGED <<callerVars, routerVars, hostVars, serverVars, listenerVars, codecVars, senderVars>>

\* BrowserView.getAll(), in creation order
AllViews == <<1, 2>>

\* mutant: the loop ends after the first view
BroadcastSends_FirstOnly(sm, st, i, name, payload) ==
  SendMessage(sm, st, AllViews[1], name, payload).sent

RECURSIVE BroadcastSends(_, _, _, _, _)
\* `for (const browserView of BrowserView.getAll()) sendMessage(...)`: the
\* sends made for the views from index i on
BroadcastSends(sm, st, i, name, payload) ==
  IF i > Len(AllViews) THEN <<>>
  ELSE SendMessage(sm, st, AllViews[i], name, payload).sent
         \o BroadcastSends(sm, st, i + 1, name, payload)

BroadcastMessage(name, payload) ==
  /\ lastEvent' = [op |-> "broadcast", name |-> name, payload |-> payload,
                   sent |-> BroadcastSends(socketMap, sockState, 1, name, payload),
                   escaped |-> FALSE]
  /\ UNCHANGED <<callerVars, routerVars, hostVars, serverVars, listenerVars, codecVars, senderVars>>

\* the host sending while sockets open and close
SendNext ==
  \/ \E s \in Sockets : HostSocketOpen(s)
  \/ \E s \in Sockets : HostSocketClosing(s)
  \/ \E s \in Sockets : HostSocketClose(s)
  \/ \E v \in PeerIds, n \in Names, p \in SendPayloads : HostSendMessage(v, n, p)
  \/ \E n \in Names, p \in SendPayloads : BroadcastMessage(n, p)

SendSpec == Init /\ [][SendNext]_vars

\* the peer id has no view, no socketMap entry, or an entry that is not OPEN
Detached(webviewId) ==
  \/ webviewId \notin Webviews
  \/ webviewId \notin DOMAIN socketMap
  \/ sockState[socketMap[webviewId]] # "OPEN"

\* C13: sendMessage to an unknown peer id, to a peer without a socketMap
\* entry or to a peer whose socket is not OPEN returns false, transmits
\* nothing, throws nothing and changes nothing; a socket whose close event
\* was handled is never the one socketMap holds.
SendToDetachedFailsSoftly ==
  /\ [][ \A v \in PeerIds, n \in Names, p \in SendPayloads :
           (Detached(v) /\ HostSendMessage(v, n, p)) =>
             /\ lastEvent'.ok = FALSE
             /\ lastEvent'.sent = <<>>
             /\ ~lastEvent'.escaped
             /\ UNCHANGED hostVars ]_vars
  /\ [](\A s \in Sockets : sockState[s] = "CLOSED" =>
          \A v \in DOMAIN socketMap : socketMap[v] # s)

\* a send of a serializable Message to a peer whose only socket has closed
\* returned false
SendToDetachedWitness ==
  /\ lastEvent.op = "send" /\ lastEvent.view = 2
  /\ lastEvent.payload = Obj("m1")
  /\ ~lastEvent.ok /\ lastEvent.sent = <<>>
  /\ sockState["s3"] = "CLOSED"

\* the views whose socketMap entry is an OPEN socket
Attached == {v \in Webviews : ~Detached(v)}

ReconnectNext ==
  \/ HostSocketOpen("s1")
  \/ sockState["s1"] # "new" /\ HostSocketOpen("s2")
  \/ HostSocketOpen("s3")
  \/ \E s \in Sockets : HostSocketClosing(s)
  \/ \E s \in Sockets : HostSocketClose(s)
  \/ \E v \in PeerIds, n \in Names, p \in SendPayloads : HostSendMessage(v, n, p)
  \/ \E n \in Names, p \in SendPayloads : BroadcastMessage(n, p)

ReconnectSpec == Init /\ [][ReconnectNext]_vars

\* C15: opening a socket under an id replaces the id's entry, and once s1
\* and then s2 have opened under one id, every send to that id while s2 is
\* open is transmitted, on s2.
LastAttachWins ==
  /\ [][ \A s \in Sockets : HostSocketOpen(s) => socketMap'[SocketView(s)] = s ]_vars
  /\ [][ \A n \in Names :
           (sockState["s2"] = "OPEN" /\ HostSendMessage(1, n, Obj("m1"))) =>
             /\ Len(lastEvent'.sent) = 1
             /\ lastEvent'.sent[1].socket = "s2" ]_vars

\* ------------------------------------------- envelopes that fail to open
\* the key initEdenClient's decrypt function works with: webview 1's
WebviewKey == Key(1)

\* the "message" listener of initEdenClient: parse, await decrypt, parse,
\* handleIncomingPacket; whatever throws is caught and logged
SocketMessage(env) ==
  IF DecryptOpens(WebviewKey, env)
  THEN HandleIncomingPacket(env.packet)
  ELSE /\ socket \in {"OPEN", "CLOSED"}
       /\ lastEvent' = Event("decryptFailed", 0)
       /\ UNCHANGED <<callerVars, routerVars, hostVars, serverVars, listenerVars, codecVars, senderVars>>

\* what can arrive on a connection: packets under every view's key, with or
\* without a changed field, and something that is no envelope
WireEnvelopes(packets) ==
  {Envelope(k, p) : k \in Keys, p \in packets}
  \cup {Tampered(Envelope(k, p)) : k \in Keys, p \in packets}
  \cup {Malformed}

DropRequests == {Request(GenerateRequestId(1, 0), "echo", Obj("p1"))}
DropOutcomes == {[kind |-> "return", value |-> Obj("r1")]}
DropResponses == {ResponseResult(Request(GenerateRequestId(n, 0), "echo", Obj("p1")), Obj("r1")) :
                    n \in 1..MaxCalls}

\* both sides receiving envelopes that open and envelopes that do not
DropNext ==
  \/ RegisterProcedure("echo", "f1")
  \/ OnMessage("host", "log", "h1")
  \/ HostSocketOpen("s1")
  \/ \E env \in WireEnvelopes(DropRequests \cup {Message("log", Obj("m1"))}) :
       HostMessage("s1", env)
  \/ \E d \in running, o \in DropOutcomes : HandlerCompletes(d, o)
  \/ InitEdenClient("OPEN")
  \/ CallProcedure("echo", 0)
  \/ \E k \in 1..MaxCalls : EncryptResolves(k)
  \/ \E env \in WireEnvelopes(DropResponses) : SocketMessage(env)

DropSpec == Init /\ [][DropNext]_vars

\* C16: an envelope that does not open under the receiver's key (another
\* peer's key, a changed field, not an envelope) changes nothing on either
\* side: no handler runs, no Response is built or sent, registries,
\* subscriptions, socketMap and pending requests stay as they are, and the
\* connection goes on accepting the envelopes that do open.
UndecryptableDropped ==
  /\ [][ \A env \in WireEnvelopes(DropRequests \cup {Message("log", Obj("m1"))}) :
           (env.key # Key(1) /\ HostMessage("s1", env)) =>
             /\ lastEvent' = [op |-> "decryptFailed", sock |-> "s1"]
             /\ UNCHANGED <<hostVars, routerVars, callerVars>> ]_vars
  /\ [][ \A env \in WireEnvelopes(DropResponses) :
           (env.key # WebviewKey /\ SocketMessage(env)) =>
             /\ lastEvent' = Event("decryptFailed", 0)
             /\ UNCHANGED <<hostVars, routerVars, callerVars>> ]_vars
  /\ [](lastEvent.op = "decryptFailed" =>
          /\ lastEvent = [op |-> "decryptFailed", sock |-> "s1"] =>
               /\ socketMap[1] = "s1" /\ sockState["s1"] = "OPEN"
               /\ dispatched < MaxRequests =>
                    \A p \in DropRequests : ENABLED HostMessage("s1", Envelope(Key(1), p))
          /\ lastEvent = Event("decryptFailed", 0) =>
               \A p \in DropResponses : ENABLED SocketMessage(Envelope(WebviewKey, p)))

\* the host dropped an envelope while a handler was running, a procedure and
\* a message handler were registered and a call was pending on the webview
UndecryptableWitness ==
  /\ lastEvent = [op |-> "decryptFailed", sock |-> "s1"]
  /\ running # {} /\ DOMAIN procedures # {} /\ DOMAIN messageHandlers["host"] # {}
  /\ DOMAIN pendingRequests # {}

\* ------------------------------------------------- the codec on its own
\* what can be done to a frame between encrypt and decrypt
Changes == {"none", "ciphertext", "tagBit", "tagShort4", "tagShort12", "tagShort2", "iv"}

\* a byte of the ciphertext with a bit flipped; an empty ciphertext gets a byte
ChangeCiphertext(bytes) ==
  IF bytes = <<>> THEN <<1>> ELSE [bytes EXCEPT ![1] = Xor(@, 1)]

\* the three fields decrypt is given after the change
Changed(frame, change) ==
  LET encrypted == Base64ToUint8Array(frame.encrypted)
      iv == Base64ToUint8Array(frame.iv)
      tag == Base64ToUint8Array(frame.tag)
  IN [encrypted |-> IF change = "ciphertext" THEN ChangeCiphertext(encrypted) ELSE encrypted,
      iv |-> IF change = "iv" THEN 1 - iv ELSE iv,
      tag |-> IF change = "tagBit" THEN [tag EXCEPT !.flipped = TRUE]
              ELSE IF change = "tagShort4" THEN [tag EXCEPT !.len = 4]
              ELSE IF change = "tagShort12" THEN [tag EXCEPT !.len = 12]
              ELSE IF change = "tagShort2" THEN [tag EXCEPT !.len = 2]
              ELSE tag]

\* encrypt(secretKey, text)
CodecEncrypt(secretKey, text, iv) ==
  /\ lastEvent' = [op |-> "encrypt", key |-> secretKey, text |-> text,
                   frame |-> Encrypt(secretKey, text, iv)]
  /\ UNCHANGED <<callerVars, routerVars, hostVars, serverVars, listenerVars, codecVars, senderVars>>

\* decrypt(secretKey, ...) of the frame encrypt just returned, after a change
CodecDecrypt(secretKey, change, shortTags) ==
  /\ lastEvent.op = "encrypt" /\ lastEvent.frame.ok
  /\ LET c == Changed(lastEvent.frame, change) IN
     lastEvent' = [op |-> "decrypt", key |-> secretKey, change |-> change,
                   madeWith |-> lastEvent.key, text |-> lastEvent.text,
                   result |-> Decrypt(secretKey, c.encrypted, c.iv, c.tag, shortTags)]
  /\ UNCHANGED <<callerVars, routerVars, hostVars, serverVars, listenerVars, codecVars, senderVars>>

CodecNext ==
  \/ \E k \in CodecKeys, t \in Texts, iv \in Ivs : CodecEncrypt(k, t, iv)
  \/ \E k \in CodecKeys, c \in Changes, st \in BOOLEAN : CodecDecrypt(k, c, st)
  \/ \E s \in {"s1", "s3"} : HostSocketOpen(s)
  \/ \E s \in {"s1", "s3"}, k \in Keys : HostMessage(s, Envelope(k, Message("log", Obj("m1"))))

CodecSpec == Init /\ [][CodecNext]_vars

\* no lone surrogate: what JSON.stringify returns
WellFormed(text) == \A i \in 1..Len(text) : text[i] # "D800"

TamperDetected ==
  (lastEvent.op = "decrypt" /\ lastEvent.key = lastEvent.madeWith) =>
    /\ lastEvent.change \in {"ciphertext", "tagBit", "tagShort2", "tagShort4", "tagShort12"}
         => ~lastEvent.result.ok
    /\ (lastEvent.result.ok /\ WellFormed(lastEvent.text))
         => lastEvent.result.text = lastEvent.text

\* C19: decrypt under a key other than the one encrypt was given fails,
\* whatever else was changed, and the host drops an envelope made under one
\* view's key that arrives on a socket of another view.
WrongKeyRejected ==
  /\ [](lastEvent.op = "decrypt" /\ lastEvent.key # lastEvent.madeWith => ~lastEvent.result.ok)
  /\ [][ \A s \in {"s1", "s3"}, k \in Keys :
           (k # Key(SocketView(s)) /\ HostMessage(s, Envelope(k, Message("log", Obj("m1"))))) =>
             /\ lastEvent' = [op |-> "decryptFailed", sock |-> s]
             /\ UNCHANGED <<hostVars, routerVars, callerVars>> ]_vars

\* an unchanged frame made under webview 1's key did not open under webview
\* 2's key, while webview 2's socket was open
WrongKeyDecryptWitness ==
  /\ lastEvent.op = "decrypt" /\ lastEvent.change = "none"
  /\ lastEvent.madeWith = Key(1) /\ lastEvent.key = Key(2)
  /\ lastEvent.text = <<"a", "E9">> /\ ~lastEvent.result.ok
  /\ sockState["s3"] = "OPEN"

\* ------------------------------------------------------------ port scan
StartPort == 50000
\* the scan window, in ports; endPort is startPort + PortSpan - 1
PortSpan == 3
EndPort == StartPort + PortSpan - 1
ScanRange == StartPort..EndPort
\* the ports there are: the window and one port on each side of it
Ports == (StartPort - 1)..(EndPort + 1)

\* mutant: the scan runs downward from endPort
Scan_Downward(port, inUse, denied) ==
  LET free == {p \in ScanRange : p \notin inUse} IN
  IF free = {} THEN [tried |-> <<>>, end |-> "exhausted", port |-> 0]
  ELSE LET top == CHOOSE p \in free : \A q \in free : q <= p
       IN [tried |-> <<top>>, end |-> "bound", port |-> top]

\* mutant: a scan that finds the window full goes on to the port above it
Scan_PastEnd(port, inUse, denied) ==
  LET free == {p \in ScanRange : p \notin inUse} IN
  IF free = {} THEN [tried |-> [i \in 1..(PortSpan + 1) |-> StartPort + i - 1],
                     end |-> "bound", port |-> EndPort + 1]
  ELSE LET low == CHOOSE p \in free : \A q \in free : p <= q
       IN [tried |-> [i \in 1..(low - StartPort + 1) |-> StartPort + i - 1],
           end |-> "bound", port |-> low]

\* mutant: any listen error is treated as address-in-use
Scan_SkipDenied(port, inUse, denied) ==
  LET free == {p \in ScanRange : p >= port /\ p \notin inUse /\ p \notin denied} IN
  IF free = {} THEN [tried |-> [i \in 1..(EndPort - port + 1) |-> port + i - 1],
                     end |-> "exhausted", port |-> 0]
  ELSE LET low == CHOOSE p \in free : \A q \in free : p <= q
       IN [tried |-> [i \in 1..(low - port + 1) |-> port + i - 1],
           end |-> "bound", port |-> low]

RECURSIVE Scan(_, _, _)
\* the for loop of startServer from `port` on. app.listen(port) throws
\* EADDRINUSE on a port in use and another error on a denied port; tried are
\* the ports given to listen, in order.
Scan(port, inUse, denied) ==
  IF port > EndPort THEN [tried |-> <<>>, end |-> "exhausted", port |-> 0]
  ELSE IF port \in inUse
       THEN LET rest == Scan(port + 1, inUse, denied)
            IN [rest EXCEPT !.tried = <<port>> \o @]
  ELSE IF port \in denied THEN [tried |-> <<port>>, end |-> "rethrown", port |-> 0]
  ELSE [tried |-> <<port>>, end |-> "bound", port |-> port]

\* startServer(): scan from startPort; on success keep the port
StartServer(denied) ==
  /\ LET r == Scan(StartPort, bound \cup taken, denied) IN
     /\ serverPort' = IF r.end = "bound" THEN r.port ELSE serverPort
     /\ bound' = IF r.end = "bound" THEN bound \cup {r.port} ELSE bound
     /\ lastEvent' = [op |-> "startServer", tried |-> r.tried, end |-> r.end,
                      port |-> r.port, inUse |-> bound \cup taken, denied |-> denied]
     /\ returned' = IF r.end = "bound"
                     THEN [returned EXCEPT !["index"] = @ \cup {r.port}] ELSE returned
  /\ UNCHANGED <<taken, corePort>>
  /\ UNCHANGED <<callerVars, routerVars, hostVars, listenerVars, codecVars, senderVars>>

\* another process starts or stops listening on a port
PortTaken(p) ==
  /\ p \notin bound \cup taken
  /\ taken' = taken \cup {p}
  /\ lastEvent' = [op |-> "portTaken", port |-> p]
  /\ UNCHANGED <<serverPort, bound, corePort, returned>>
  /\ UNCHANGED <<callerVars, routerVars, hostVars, listenerVars, codecVars, senderVars>>

PortFreed(p) ==
  /\ p \in taken
  /\ taken' = taken \ {p}
  /\ lastEvent' = [op |-> "portFreed", port |-> p]
  /\ UNCHANGED <<serverPort, bound, corePort, returned>>
  /\ UNCHANGED <<callerVars, routerVars, hostVars, listenerVars, codecVars, senderVars>>

ServerNext ==
  \/ \E denied \in SUBSET ScanRange : StartServer(denied)
  \/ \E p \in Ports : PortTaken(p)
  \/ \E p \in Ports : PortFreed(p)

ServerSpec == Init /\ [][ServerNext]_vars

\* C20: with no error other than address-in-use, startServer binds and
\* returns the lowest port of the window that is not in use, after trying
\* every lower port of the window once, in order, and no other port.
LowestFreePortBound ==
  [][ StartServer({}) =>
        LET inUse == bound \cup taken
            free == {p \in ScanRange : p \notin inUse}
            tried == lastEvent'.tried
        IN /\ \A i \in 1..Len(tried) : tried[i] = StartPort + i - 1 /\ tried[i] \in ScanRange
           /\ free # {} =>
                /\ lastEvent'.end = "bound"
                /\ lastEvent'.port \in free /\ \A q \in free : lastEvent'.port <= q
                /\ tried[Len(tried)] = lastEvent'.port
                /\ \A i \in 1..(Len(tried) - 1) : tried[i] \in inUse
                /\ bound' = bound \cup {lastEvent'.port} ]_vars

\* the two lowest ports of the window and the port below the window were in
\* use and the third port was bound
LowestFreePortWitness ==
  /\ lastEvent.op = "startServer" /\ lastEvent.end = "bound"
  /\ lastEvent.port = StartPort + 2
  /\ lastEvent.tried = <<StartPort, StartPort + 1, StartPort + 2>>
  /\ StartPort - 1 \in lastEvent.inUse
  /\ lastEvent.denied = {}

\* C21: when every port of the window is in use, startServer ends with the
\* no-available-port error after trying each port of the window once: it
\* returns no port, binds nothing and keeps the stored port.
FullRangeFails ==
  [][ (StartServer({}) /\ ScanRange \subseteq bound \cup taken) =>
        /\ lastEvent'.end = "exhausted"
        /\ lastEvent'.port = 0
        /\ lastEvent'.tried = [i \in 1..PortSpan |-> StartPort + i - 1]
        /\ bound' = bound /\ serverPort' = serverPort ]_vars

\* a scan over a full window in which another process holds the last port
FullRangeWitness ==
  /\ lastEvent.op = "startServer" /\ lastEvent.end = "exhausted"
  /\ lastEvent.denied = {}
  /\ ScanRange \subseteq lastEvent.inUse
  /\ EndPort \in taken
  /\ Len(lastEvent.tried) = PortSpan

\* ------------------------------------------- the other startServer exports
\* the startServer implementations the package exports: bun/index.ts 559
\* ("index") and 178 ("indexElysia"), bun/core/ElysiaRPC.ts 171 ("core") and
\* 369 ("coreCompact")
Impls == {"index", "indexElysia", "core", "coreCompact"}

\* whether the implementation assigns the module's serverPort on success
CoreStores(impl) == impl = "core"

\* startServer(app) of bun/index.ts 178-194: same scan, returns the port and
\* assigns nothing
ElysiaStartServer(denied) ==
  /\ LET r == Scan(StartPort, bound \cup taken, denied) IN
     /\ bound' = IF r.end = "bound" THEN bound \cup {r.port} ELSE bound
     /\ lastEvent' = [op |-> "startServer", impl |-> "indexElysia", tried |-> r.tried,
                      end |-> r.end, port |-> r.port, inUse |-> bound \cup taken,
                      denied |-> denied]
     /\ returned' = IF r.end = "bound"
                     THEN [returned EXCEPT !["indexElysia"] = @ \cup {r.port}] ELSE returned
  /\ UNCHANGED <<serverPort, corePort, taken>>
  /\ UNCHANGED <<callerVars, routerVars, hostVars, listenerVars, codecVars, senderVars>>

\* startServer(app) of bun/core/ElysiaRPC.ts: 171-190 assigns serverPort,
\* 369-381 does not
CoreStartServer(impl, denied) ==
  /\ impl \in {"core", "coreCompact"}
  /\ LET r == Scan(StartPort, bound \cup taken, denied) IN
     /\ bound' = IF r.end = "bound" THEN bound \cup {r.port} ELSE bound
     /\ corePort' = IF r.end = "bound" /\ CoreStores(impl) THEN r.port ELSE corePort
     /\ lastEvent' = [op |-> "startServer", impl |-> impl, tried |-> r.tried,
                      end |-> r.end, port |-> r.port, inUse |-> bound \cup taken,
                      denied |-> denied]
     /\ returned' = IF r.end = "bound"
                     THEN [returned EXCEPT ![impl] = @ \cup {r.port}] ELSE returned
  /\ UNCHANGED <<serverPort, taken>>
  /\ UNCHANGED <<callerVars, routerVars, hostVars, listenerVars, codecVars, senderVars>>

\* getServerPort() of bun/index.ts and of bun/core/ElysiaRPC.ts
GetServerPort(module) == IF module = "index" THEN serverPort ELSE corePort

ModuleImpls(module) ==
  IF module = "index" THEN {"index", "indexElysia"} ELSE {"core", "coreCompact"}

ExportNext ==
  \/ \E denied \in SUBSET ScanRange : StartServer(denied)
  \/ \E denied \in SUBSET ScanRange : ElysiaStartServer(denied)
  \/ \E impl \in {"core", "coreCompact"}, denied \in SUBSET ScanRange :
       CoreStartServer(impl, denied)
  \/ \E p \in Ports : PortTaken(p)
  \/ \E p \in Ports : PortFreed(p)

ExportSpec == Init /\ [][ExportNext]_vars

RequestIdsUnique ==
  /\ [](/\ \A i, j \in 1..Len(calls) : i # j => calls[i].id # calls[j].id
        /\ \A id \in DOMAIN pendingRequests : calls[pendingRequests[id]].id = id
        /\ \A k \in timers : HasEntry(k))
  /\ [][ \A p \in IncomingResponses : HandleIncomingPacket(p) =>
           \A k \in 1..Len(calls) : calls'[k] # calls[k] => calls[k].id = p.id ]_vars

\* two calls made at the same clock reading are both pending, and a Response
\* has settled the second one only
RequestIdsUniqueWitness ==
  /\ Len(calls) = 2
  /\ calls[1].id[3] = calls[2].id[3]
  /\ lastEvent = Event("response", 2)
  /\ HasEntry(1) /\ calls[1].promise = Pending
  /\ calls[2].promise.state = "fulfilled"

\* a property of a parsed packet is present when JSON.stringify wrote it
Present(v) == v # Undefined

\* C24: every Response the host transmits carries exactly one of result and
\* error, whatever the handler returned or threw.
ExactlyOneOfResultError ==
  lastEvent.op = "dispatch" =>
    \A i \in 1..Len(lastEvent.sent) :
      LET p == lastEvent.sent[i].env.packet
      IN Present(p.result) # Present(p.error)

\* C25: a Response whose id is pending settles the call that was given that
\* id, with a value taken from that Response (its result, or its error), and
\* removes that call's entry only: every other call keeps its record, and
\* one that was pending keeps its entry and its timer.
CorrelatedById ==
  [][ \A p \in IncomingResponses :
        (PendingGet(pendingRequests, p.id) # 0 /\ HandleIncomingPacket(p)) =>
          LET k == IssuedTo(p.id) IN
          /\ k # 0 /\ lastEvent' = Event("response", k)
          /\ calls'[k].promise \in
               IF p.error = Undefined THEN {Fulfilled(p.result)}
               ELSE {Fulfilled(p.result), Rejected(StringOf(p.error))}
          /\ PendingGet(pendingRequests', p.id) = 0
          /\ \A j \in 1..Len(calls) : j # k =>
               /\ calls'[j] = calls[j]
               /\ HasEntry(j) => (PendingGet(pendingRequests', calls[j].id) = j /\ j \in timers') ]_vars

\* two transmitted calls were in flight together; the second call's Response
\* came first and rejected it, then the first call's Response resolved it
CorrelatedByIdWitness ==
  /\ Len(calls) = 2
  /\ lastEvent = Event("response", 1)
  /\ calls[1].send = "sent" /\ calls[2].send = "sent"
  /\ calls[1].log = <<"resolve">> /\ calls[1].promise = Fulfilled(Obj("r1"))
  /\ calls[2].log = <<"remote">>

\* the host's dispatch with two peers connected and handlers that take time
AsyncNext ==
  \/ \E h \in ProcHandlers : RegisterProcedure("echo", h)
  \/ \E s \in {"s1", "s3"} : HostSocketOpen(s)
  \/ \E s \in {"s1", "s3"}, p \in HostPackets :
       HostMessage(s, Envelope(Key(SocketView(s)), p))
  \/ \E d \in running, o \in Outcomes : HandlerCompletes(d, o)

AsyncSpec == Init /\ [][AsyncNext]_vars

\* C26: a Request whose procedure is registered is answered only when its
\* handler completes, never in the step that invokes it; and while handlers
\* are pending the host still takes every Request and Message from every
\* open socket, and any pending handler may complete, in any order.
AwaitedWithoutBlocking ==
  /\ [][ /\ \A s \in Sockets, p \in HostRequests :
              (HostMessage(s, Envelope(Key(SocketView(s)), p)) /\ p.method \in DOMAIN procedures)
                => /\ lastEvent'.op = "invoke"
                   /\ \E d \in running' \ running : d.request = p /\ d.sock = s
         /\ (lastEvent'.op = "dispatch" /\ lastEvent'.handler # "none")
              => \E d \in running \ running' :
                   d.n = lastEvent'.n /\ d.request = lastEvent'.request ]_vars
  /\ [](running # {} =>
          /\ \A d \in running, o \in Outcomes : ENABLED HandlerCompletes(d, o)
          /\ \A s \in Sockets : sockState[s] = "OPEN" =>
               /\ \A n \in Names, p \in Payloads :
                    ENABLED HostMessage(s, Envelope(Key(SocketView(s)), Message(n, p)))
               /\ dispatched < MaxRequests =>
                    \A p \in HostRequests :
                      ENABLED HostMessage(s, Envelope(Key(SocketView(s)), p)))

\* the second Request of a socket was answered while the handler of the
\* first Request of the same socket was still pending
AwaitedWithoutBlockingWitness ==
  /\ lastEvent.op = "dispatch" /\ lastEvent.n = 2 /\ lastEvent.handler # "none"
  /\ lastEvent.sent # <<>>
  /\ \E d \in running : d.n = 1 /\ d.sock = lastEvent.sock

\* ------------------------------------------- the webview's message listener
\* message events one connection delivers in one run
MaxArrivals == 2

\* the "message" listener up to its await: JSON.parse(event.data) and the
\* call of decryptFn; a frame that does not parse is caught and dropped here
MessageArrives(env) ==
  /\ socket = "OPEN"
  /\ arrived < MaxArrivals
  /\ arrived' = arrived + 1
  /\ decrypting' = IF env = Malformed THEN decrypting
                   ELSE decrypting \cup {[n |-> arrived + 1, env |-> env]}
  /\ lastEvent' = [op |-> "arrive", n |-> arrived + 1, parsed |-> env # Malformed]
  /\ UNCHANGED handled
  /\ UNCHANGED <<callerVars, routerVars, hostVars, serverVars, codecVars, senderVars>>

\* the promise of one decryptFn call settles and the listener goes on:
\* JSON.parse(decrypted), handleIncomingPacket(packet), or the catch. The
\* promises of different events settle in whatever order decryptFn finishes.
DecryptSettles(e) ==
  /\ e \in decrypting
  /\ decrypting' = decrypting \ {e}
  /\ UNCHANGED arrived
  /\ IF DecryptOpens(WebviewKey, e.env)
     THEN /\ HandlePacket(e.env.packet)
          /\ handled' = Append(handled, e.n)
     ELSE /\ lastEvent' = Event("decryptFailed", 0)
          /\ UNCHANGED handled
          /\ UNCHANGED <<callerVars, routerVars, hostVars, serverVars, codecVars, senderVars>>

ListenerPackets == DropResponses \cup {Message("log", Obj("m1"))}

ListenerNext ==
  \/ InitEdenClient("OPEN")
  \/ OnMessage("webview", "log", "h1")
  \/ CallProcedure("echo", 0)
  \/ \E k \in 1..MaxCalls : EncryptResolves(k)
  \/ \E env \in WireEnvelopes(ListenerPackets) : MessageArrives(env)
  \/ \E e \in decrypting : DecryptSettles(e)

ListenerSpec == Init /\ [][ListenerNext]_vars

\* C27: the webview gives the packets of one connection to
\* handleIncomingPacket in the order their envelopes arrived.
ArrivalOrderKept ==
  \A i, j \in 1..Len(handled) : i < j => handled[i] < handled[j]

\* the webview's calls while its connection closes
TeardownNext ==
  \/ InitEdenClient("OPEN")
  \/ SocketCloses
  \/ CallProcedure("echo", 0)
  \/ \E k \in 1..MaxCalls : SendCatch(k)
  \/ \E k \in 1..MaxCalls : EncryptRejects(k)
  \/ \E k \in 1..MaxCalls : EncryptResolves(k)
  \/ \E k \in 1..MaxCalls : TimeoutFires(k)
  \/ \E p \in DropResponses : MessageArrives(Envelope(WebviewKey, p))
  \/ \E e \in decrypting : DecryptSettles(e)

TeardownSpec == Init /\ [][TeardownNext]_vars

Shapeless ==
  {[type |-> "subscribe"], [type |-> "none"],
   Request(Undefined, "echo", Undefined),
   Request(Undefined, "doesNotExist", Undefined),
   Response(GenerateRequestId(1, 0), Undefined, Undefined)}

ShapeNext ==
  \/ RegisterProcedure("echo", "f1")
  \/ OnMessage("host", "*", "h1")
  \/ HostSocketOpen("s1")
  \/ \E p \in Shapeless : HostMessage("s1", Envelope(Key(1), p))
  \/ \E d \in running, o \in DropOutcomes : HandlerCompletes(d, o)
  \/ InitEdenClient("OPEN")
  \/ CallProcedure("echo", 0)
  \/ \E k \in 1..MaxCalls : EncryptResolves(k)
  \/ \E p \in Shapeless : HandleIncomingPacket(p)

ShapeSpec == Init /\ [][ShapeNext]_vars

\* C29: a decrypted payload of none of the three shapes is dropped on both
\* sides: no handler is invoked, no Response is built or sent, and no call,
\* entry, timer, subscription or dispatch changes.
ShapelessDropped ==
  [][ \A p \in Shapeless :
        (HostMessage("s1", Envelope(Key(1), p)) \/ HandleIncomingPacket(p)) =>
          /\ lastEvent'.op \in {"ignored", "dropped"}
          /\ UNCHANGED <<callerVars, routerVars, hostVars>> ]_vars

\* ------------------------------------------------------- routing by type
RoutePackets == DropRequests \cup DropResponses \cup {Message("log", Obj("m1"))}

\* both sides receiving packets of the three types
RouteNext ==
  \/ RegisterProcedure("echo", "f1")
  \/ OnMessage("host", "log", "h1")
  \/ HostSocketOpen("s1")
  \/ \E p \in RoutePackets : HostMessage("s1", Envelope(Key(1), p))
  \/ \E d \in running, o \in DropOutcomes : HandlerCompletes(d, o)
  \/ InitEdenClient("OPEN")
  \/ CallProcedure("echo", 0)
  \/ \E k \in 1..MaxCalls : EncryptResolves(k)
  \/ \E p \in RoutePackets : HandleIncomingPacket(p)

RouteSpec == Init /\ [][RouteNext]_vars

\* what lastEvent records when a packet of the type was given to its
\* pipeline: the registry (a handler invoked, or the unknown-procedure
\* Response built), the message router, the request correlator
Pipeline(type) ==
  IF type = "request" THEN {"invoke", "dispatch"}
  ELSE IF type = "message" THEN {"message", "hostMessage"}
  ELSE {"response", "dropped"}

\* C30: on the host and on the webview, a received packet of each of the
\* three types is given to the pipeline of its type and to no other.
RoutedByType ==
  [][ \A p \in RoutePackets :
        (HostMessage("s1", Envelope(Key(1), p)) \/ HandleIncomingPacket(p))
          => lastEvent'.op \in Pipeline(p.type) ]_vars

\* ------------------------------- ElysiaElectrobun (integrations/elysia/server.ts)
\* the procedures of the ElysiaElectrobun instance: an app built with
\* .procedure("echo", ...)
ElysiaProcedures == {"echo"}

\* what the transport hands to handleIncoming: a Request {id, type, path,
\* body} with or without a hostWebviewId field
ElysiaRequest(id, path, body, hostWebviewId) ==
  [type |-> "request", id |-> id, path |-> path, body |-> body,
   hostWebviewId |-> hostWebviewId]

ElysiaRequests ==
  {ElysiaRequest(GenerateRequestId(1, 0), path, body, hw) :
     path \in {"echo", "/echo", "doesNotExist"}, body \in {Obj("p1"), Undefined},
     hw \in {Undefined} \cup {<<"number", v>> : v \in Webviews}}

\* `packet.hostWebviewId ?? 0`
PacketWebviewId(packet) ==
  IF packet.hostWebviewId = Undefined THEN 0 ELSE packet.hostWebviewId[2]

\* `request.path.replace(/^\//, "")`
ProcedureName(path) == IF path = "/echo" THEN "echo" ELSE path

\* handleIncoming(packet) of toRPC(), for a Request, up to the await of the
\* handler; conn is the view whose transport delivered the packet
ElysiaHandleIncoming(conn, packet) ==
  /\ packet.type = "request"
  /\ LET webviewId == PacketWebviewId(packet)
         name == ProcedureName(packet.path)
     IN IF name \in ElysiaProcedures
        THEN lastEvent' = [op |-> "elysiaInvoke", conn |-> conn, request |-> packet,
                           params |-> IF packet.body = Undefined THEN Obj("empty")
                                      ELSE packet.body,
                           ctx |-> webviewId]
        ELSE lastEvent' = [op |-> "elysiaUnknown", conn |-> conn, request |-> packet,
                           error |-> "Unknown procedure: " \o name]
  /\ UNCHANGED <<callerVars, routerVars, hostVars, serverVars, listenerVars, codecVars, senderVars>>

\* Requests arriving at both host implementations
ContextNext ==
  \/ RegisterProcedure("echo", "f1")
  \/ \E s \in Sockets : HostSocketOpen(s)
  \/ \E s \in Sockets, p \in HostRequests : HostMessage(s, Envelope(Key(SocketView(s)), p))
  \/ \E d \in running, o \in DropOutcomes : HandlerCompletes(d, o)
  \/ \E conn \in Webviews, p \in ElysiaRequests : ElysiaHandleIncoming(conn, p)

ContextSpec == Init /\ [][ContextNext]_vars

\* C31: every handler invocation gets the Request's params and a context
\* whose peer id is the id of the connection the Request arrived on.
ContextIsConnection ==
  /\ lastEvent.op = "invoke" =>
       /\ lastEvent.params = lastEvent.request.params
       /\ lastEvent.ctx = SocketView(lastEvent.sock)
  /\ lastEvent.op = "elysiaInvoke" => lastEvent.ctx = lastEvent.conn

\* ------------------------------------------------------ nonces of encrypt
\* encrypt calls for outbound packets in one run
MaxFrames == 3

\* what the host encrypts: JSON.stringify of a packet, the same one or another
OutboundTexts == {<<"a">>, <<"a", "a">>}

\* sendToWebview's `encrypt(browserView.secretKey, JSON.stringify(packet))`:
\* iv is what randomBytes(12) returns this time
EncryptOutbound(view, text, iv) ==
  /\ Len(frames) < MaxFrames
  /\ LET frame == Encrypt(Key(view), text, iv) IN
     /\ frames' = Append(frames, [key |-> Key(view), text |-> text,
                                  iv |-> Base64ToUint8Array(frame.iv)])
     /\ lastEvent' = [op |-> "encryptOutbound", view |-> view, frame |-> frame]
  /\ UNCHANGED <<callerVars, routerVars, hostVars, serverVars, listenerVars, senderVars>>

NonceNext ==
  \E view \in Webviews, text \in OutboundTexts, iv \in Ivs : EncryptOutbound(view, text, iv)

NonceSpec == Init /\ [][NonceNext]_vars

\* C32 as stated: no two encrypt calls under one key use the same nonce.
NonceNeverReused ==
  \A i, j \in 1..Len(frames) :
    (i # j /\ frames[i].key = frames[j].key) => frames[i].iv # frames[j].iv

\* C32, amended: every encrypt call uses the nonce randomBytes returned for
\* that call, and randomBytes may return any value whatever the key, the
\* text and the nonces used before.
NonceFreshlyDrawn ==
  /\ [][ \A view \in Webviews, text \in OutboundTexts, iv \in Ivs :
           EncryptOutbound(view, text, iv) =>
             frames' = Append(frames, [key |-> Key(view), text |-> text, iv |-> iv]) ]_vars
  /\ [](Len(frames) < MaxFrames =>
          \A view \in Webviews, text \in OutboundTexts, iv \in Ivs :
            ENABLED EncryptOutbound(view, text, iv))

\* the same text was encrypted twice under one key and got two nonces
NonceFreshlyDrawnWitness ==
  /\ Len(frames) = 2
  /\ frames[1].key = frames[2].key /\ frames[1].text = frames[2].text
  /\ frames[1].iv # frames[2].iv

\* ------------------- the client of integrations/elysia/README.md (317-380)
\* The README's client keeps the same module state as eden.ts
\* (requestIdCounter, pendingRequests, the timers); the actions below run it
\* over the caller variables in specifications of their own.

\* a Response as that client reads it: {id, type, success, data | error}
ReadmeResponse(id, success, data, error) ==
  [type |-> "response", id |-> id, success |-> success, data |-> data, error |-> error]

ReadmeResponses ==
  {ReadmeResponse(id, TRUE, Obj("r1"), Undefined) : id \in IdUniverse}
  \cup {ReadmeResponse(id, FALSE, Undefined, e) : id \in IdUniverse,
                                                  e \in {Str("bad input"), Undefined}}

\* callProcedure: new id, arm the timer, register the entry and call
\* globalRpcSend(request) inside the Promise executor, with no try/catch: a
\* throw of globalRpcSend rejects the promise and nothing else
ReadmeCallProcedure(method, now, sendThrows) ==
  /\ Len(calls) < MaxCalls
  /\ LET id == GenerateRequestId(requestIdCounter + 1, now)
         k == Len(calls) + 1
         c == [id |-> id, method |-> method, send |-> "sent",
               promise |-> Pending, log |-> <<>>]
     IN /\ requestIdCounter' = requestIdCounter + 1
        /\ timers' = timers \cup {k}
        /\ pendingRequests' = MapSet(pendingRequests, id, k)
        /\ calls' = Append(calls,
             IF sendThrows
             THEN [PromiseSettle(c, "send", Rejected("send failed")) EXCEPT !.send = "failed"]
             ELSE c)
        /\ transmitted' = IF sendThrows THEN transmitted
                          ELSE Append(transmitted, Request(id, method, Obj("p1")))
        /\ lastEvent' = Event("call", k)
  /\ UNCHANGED socket
  /\ UNCHANGED <<routerVars, hostVars, serverVars, listenerVars, codecVars, senderVars>>

\* handleIncomingPacket, a Response: clear the timer, delete the entry,
\* resolve with data if success, else reject with error || "Unknown error"
ReadmeHandleResponse(packet) ==
  /\ LET k == PendingGet(pendingRequests, packet.id) IN
     IF k # 0
     THEN /\ timers' = ClearTimeout(timers, k)
          /\ pendingRequests' = MapDelete(pendingRequests, packet.id)
          /\ calls' = [calls EXCEPT ![k] =
               IF packet.success
               THEN PromiseSettle(@, "resolve", Fulfilled(packet.data))
               ELSE PromiseSettle(@, "remote",
                      Rejected(IF Truthy(packet.error) THEN StringOf(packet.error)
                               ELSE "Unknown error"))]
          /\ lastEvent' = Event("response", k)
     ELSE /\ lastEvent' = Event("dropped", IssuedTo(packet.id))
          /\ UNCHANGED <<timers, pendingRequests, calls>>
  /\ UNCHANGED <<requestIdCounter, socket, transmitted>>
  /\ UNCHANGED <<routerVars, hostVars, serverVars, listenerVars, codecVars, senderVars>>

ReadmeNext ==
  \/ \E m \in Methods, now \in Times, sendThrows \in BOOLEAN :
       ReadmeCallProcedure(m, now, sendThrows)
  \/ \E k \in 1..MaxCalls : TimeoutFires(k)
  \/ \E p \in ReadmeResponses : ReadmeHandleResponse(p)

ReadmeSpec == Init /\ [][ReadmeNext]_vars

\* C33: an id is in pendingRequests exactly while the call that was given it
\* is unsettled and has its timer armed.
EntryIffUnsettled ==
  /\ \A id \in DOMAIN pendingRequests : IssuedTo(id) # 0
  /\ \A k \in 1..Len(calls) :
       HasEntry(k) <=> (calls[k].promise = Pending /\ k \in timers)

\* ------------------------------------------------ send failures (eden.ts)
SendErrors == {Rejected("WebSocket not connected"), Rejected("encrypt failed")}

WasTransmitted(id) ==
  \E i \in 1..Len(transmitted) : transmitted[i].type = "request" /\ transmitted[i].id = id

\* C34 as stated: every call whose send failed is rejected with the send
\* error, with its timer cleared, its entry removed and nothing transmitted.
SendFailureRejectsWithSendError ==
  \A k \in 1..Len(calls) :
    calls[k].send = "failed" =>
      /\ calls[k].promise \in SendErrors
      /\ k \notin timers /\ ~HasEntry(k)
      /\ ~WasTransmitted(calls[k].id)

\* C34, amended: a call made while the socket is missing or not open fails
\* before any timer can run, a call whose encryption rejects fails when the
\* encryption does; the call is then rejected with the send error unless a
\* Response for its id (or, for the encryption, its timer) settled it first;
\* in both cases the timer is cleared, the entry removed, nothing is
\* transmitted for the id, and no later step changes the call.
SendFailureSettles ==
  /\ [](\A k \in 1..Len(calls) :
          calls[k].send = "failed" =>
            /\ \/ calls[k].promise \in SendErrors
               \/ \E first \in {"timeout", "resolve", "remote"} :
                    calls[k].log = <<first, "send">>
            /\ calls[k].promise.state # "pending"
            /\ k \notin timers /\ ~HasEntry(k)
            /\ ~WasTransmitted(calls[k].id))
  /\ [][\A k \in 1..Len(calls) :
          /\ SendCatch(k) => "timeout" \notin {calls[k].log[i] : i \in 1..Len(calls[k].log)}
          /\ (SendCatch(k) /\ calls[k].promise = Pending)
               => calls'[k].promise = Rejected("WebSocket not connected")
          /\ (EncryptRejects(k) /\ calls[k].promise = Pending)
               => calls'[k].promise = Rejected("encrypt failed")
          /\ calls[k].send = "failed" => calls'[k] = calls[k]]_vars

\* a Response arrived for a call whose send had failed, and was dropped
SendFailureWitness ==
  /\ lastEvent.op = "dropped" /\ lastEvent.k # 0
  /\ calls[lastEvent.k].send = "failed"
  /\ calls[lastEvent.k].promise \in SendErrors

\* C35: whenever a socket that opened under a peer id is still open,
\* socketMap has an entry for that id, whatever the order of the open and
\* close events of the sockets that claim the id.
LiveSocketHasEntry ==
  \A s \in Sockets : sockState[s] = "OPEN" => SocketView(s) \in DOMAIN socketMap

MaxSends == 2

\* sendMessage(name, payload): build the Message, start sendPacket; its catch
\* only logs. `after` is the number of callProcedure calls made before it.
EdenSendMessage(name) ==
  /\ Len(outbox) < MaxSends
  /\ outbox' = Append(outbox,
       [name |-> name, after |-> Len(calls), pos |-> 0,
        send |-> IF SendPacketStart(socket) = "syncFail" THEN "failed" ELSE "encrypting"])
  /\ lastEvent' = Event("sendMessage", Len(outbox) + 1)
  /\ UNCHANGED <<callerVars, routerVars, hostVars, serverVars, listenerVars, codecVars>>

\* encryptFn's promise resolves for a Message: socket.send(...)
MessageEncryptResolves(i) ==
  /\ i \in 1..Len(outbox)
  /\ outbox[i].send = "encrypting"
  /\ outbox' = [outbox EXCEPT
       ![i].send = IF socket = "OPEN" THEN "sent" ELSE "discarded",
       ![i].pos = IF socket = "OPEN" THEN Len(transmitted) + 1 ELSE 0]
  /\ transmitted' = IF socket = "OPEN"
                    THEN Append(transmitted, Message(outbox[i].name, Obj("m1")))
                    ELSE transmitted
  /\ lastEvent' = Event("sentMessage", i)
  /\ UNCHANGED <<requestIdCounter, calls, pendingRequests, timers, socket>>
  /\ UNCHANGED <<routerVars, hostVars, serverVars, listenerVars, codecVars>>

\* encryptFn's promise rejects for a Message: the catch logs the error
MessageEncryptRejects(i) ==
  /\ i \in 1..Len(outbox)
  /\ outbox[i].send = "encrypting"
  /\ outbox' = [outbox EXCEPT ![i].send = "failed"]
  /\ lastEvent' = Event("sendMessageFailed", i)
  /\ UNCHANGED <<callerVars, routerVars, hostVars, serverVars, listenerVars, codecVars>>

OrderNext ==
  \/ \E rs \in {"CONNECTING", "OPEN"} : InitEdenClient(rs)
  \/ SocketOpens
  \/ \E m \in Methods, now \in Times : CallProcedure(m, now)
  \/ \E k \in 1..MaxCalls : SendCatch(k)
  \/ \E k \in 1..MaxCalls : EncryptResolves(k)
  \/ \E n \in Names : EdenSendMessage(n)
  \/ \E i \in 1..MaxSends : MessageEncryptResolves(i)
  \/ \E i \in 1..MaxSends : MessageEncryptRejects(i)

OrderSpec == Init /\ [][OrderNext]_vars

\* where in transmitted the Request of call k is, 0 if it is not there
RequestPos(k) ==
  IF WasTransmitted(calls[k].id)
  THEN CHOOSE i \in 1..Len(transmitted) :
         transmitted[i].type = "request" /\ transmitted[i].id = calls[k].id
  ELSE 0

\* C37: the packets on the socket are in the order in which callProcedure and
\* sendMessage were invoked.
TransmittedInSendOrder ==
  /\ \A k1, k2 \in 1..Len(calls) :
       (k1 < k2 /\ RequestPos(k1) # 0 /\ RequestPos(k2) # 0)
         => RequestPos(k1) < RequestPos(k2)
  /\ \A i, j \in 1..Len(outbox) :
       (i < j /\ outbox[i].pos # 0 /\ outbox[j].pos # 0)
         => outbox[i].pos < outbox[j].pos
  /\ \A k \in 1..Len(calls), i \in 1..Len(outbox) :
       (RequestPos(k) # 0 /\ outbox[i].pos # 0)
         => ((outbox[i].after < k) <=> (outbox[i].pos < RequestPos(k)))

\* how often a dispatch invoked handler h
Invocations(event, h) ==
  Cardinality({i \in 1..Len(event.invoked) : event.invoked[i].handler = h})

\* the names among a Message's own name and "*" under which h is subscribed
SubscribedUnder(side, name, h) ==
  {n \in {name, "*"} : \E i \in 1..Len(SubscribersOf(side, n)) : SubscribersOf(side, n)[i] = h}

\* C38: a dispatch of one incoming Message invokes a handler at most once for
\* each name it is subscribed under (the Message's name, the wildcard name),
\* also when the Message's name is "*".
InvokedOncePerMessage ==
  lastEvent.op \in {"message", "hostMessage"} =>
    LET side == IF lastEvent.op = "message" THEN "webview" ELSE "host" IN
    \A h \in Handlers :
      Invocations(lastEvent, h) <= Cardinality(SubscribedUnder(side, lastEvent.name, h))

\* sendMessageToWebviewViaSocket(webviewId, message) of bun/core/ElysiaRPC.ts:
\* false without a BrowserView, without a socket or if readyState is not 1;
\* else encrypt and send inside try, true; false from the catch
SendMessageToWebviewViaSocket(sm, st, webviewId, message) ==
  IF webviewId \notin Webviews \/ webviewId \notin DOMAIN sm
  THEN [ok |-> FALSE, sent |-> <<>>]
  ELSE IF st[sm[webviewId]] # "OPEN" THEN [ok |-> FALSE, sent |-> <<>>]
  ELSE IF JsonSerializable(message)
  THEN [ok |-> TRUE,
        sent |-> <<[socket |-> sm[webviewId], env |-> Envelope(Key(webviewId), message)]>>]
  ELSE [ok |-> FALSE, sent |-> <<>>]

\* the result says true exactly when one envelope went out, on the socket
\* registered for the peer and OPEN
Faithful(r, webviewId) ==
  /\ r.ok <=> /\ Len(r.sent) = 1
              /\ webviewId \in DOMAIN socketMap
              /\ r.sent[1].socket = socketMap[webviewId]
              /\ sockState[socketMap[webviewId]] = "OPEN"
  /\ ~r.ok => r.sent = <<>>

\* C39: sendMessage / sendToWebview return true exactly when one envelope was
\* transmitted on the socket registered for the peer id, false with nothing
\* transmitted otherwise (no peer record, no socket, socket not OPEN, or the
\* encryption or send threw), and leave socketMap as it was.
SendOutcomeFaithful ==
  /\ [][\A v \in PeerIds, n \in Names, p \in SendPayloads :
          HostSendMessage(v, n, p) =>
            /\ Faithful(lastEvent', v)
            /\ ~lastEvent'.ok <=> (Detached(v) \/ p = Unserializable)
            /\ ~lastEvent'.escaped
            /\ socketMap' = socketMap /\ sockState' = sockState]_vars
  /\ [](\A v \in PeerIds, n \in Names, p \in SendPayloads :
          /\ Faithful(SendMessageToWebviewViaSocket(socketMap, sockState, v, Message(n, p)), v)
          /\ v \in Webviews =>
               Faithful(SendToWebview(socketMap, sockState, v, Message(n, p)), v))

\* a send that returned true after a reconnect, and one that returned false
\* because the payload could not be serialized although the socket was OPEN
SendOutcomeWitness ==
  /\ lastEvent.op = "send" /\ lastEvent.view = 1
  /\ sockState["s1"] = "OPEN" /\ sockState["s2"] = "OPEN"
  /\ \/ lastEvent.ok /\ lastEvent.sent[1].socket = socketMap[1]
     \/ ~lastEvent.ok /\ lastEvent.payload = Unserializable /\ ~Detached(1)

\* the first port of the window that is not in use, 0 if there is none
FirstOpen(inUse) ==
  LET free == {p \in ScanRange : p \notin inUse} IN
  IF free = {} THEN 0 ELSE CHOOSE p \in free : \A q \in free : p <= q

\* what a startServer call that met a listen error other than EADDRINUSE on
\* port d left behind
Rethrown(d) ==
  /\ lastEvent'.end = "rethrown"
  /\ lastEvent'.port = 0
  /\ lastEvent'.tried = [i \in 1..(d - StartPort + 1) |-> StartPort + i - 1]
  /\ UNCHANGED <<serverPort, corePort, bound, returned>>

\* C40: when listen fails on a port with an error other than address-in-use,
\* startServer ends there with that error: that port is the last one tried,
\* no port is returned or bound and the stored port is unchanged.
OtherErrorRethrown ==
  [][\A denied \in SUBSET ScanRange :
       LET d == FirstOpen(bound \cup taken) IN
       (d \in denied) =>
         /\ StartServer(denied) => Rethrown(d)
         /\ ElysiaStartServer(denied) => Rethrown(d)
         /\ \A impl \in {"core", "coreCompact"} : CoreStartServer(impl, denied) => Rethrown(d)]_vars

\* after an earlier call had stored the first port, a call found it in use,
\* met another error on the second port and left the third, free port untried
OtherErrorWitness ==
  /\ lastEvent.op = "startServer" /\ lastEvent.end = "rethrown"
  /\ lastEvent.tried = <<StartPort, StartPort + 1>>
  /\ StartPort + 2 \notin lastEvent.inUse \cup lastEvent.denied
  /\ serverPort = StartPort

====
